---- MODULE Spec2Model ----
(***************************************************************************)
(* Model of the Navi reminder assistant: the reminder store and its two    *)
(* hand-off maps, the background scheduler (src/cogs/tasks.py), the on/off *)
(* commands (src/content/settings.py) and the user settings store          *)
(* (src/database/users.py).                                                *)
(*                                                                         *)
(* Time is a small integer clock.  Text is abstracted to a few message     *)
(* constants.  database/reminders.py and database/clans.py are not part of *)
(* the sources at hand; their operations are modelled from the written     *)
(* contract (sections 4.7 and 4.8 of the specification).                   *)
(***************************************************************************)
EXTENDS Integers, Sequences, FiniteSets, TLC

\* ---------------------------------------------------------------- bounds
MaxTime == 2        \* the clock runs from 0 to MaxTime
MaxOps == 3         \* listener insertions / weekly resets per behaviour
MaxDonorOps == 3    \* donor-tier updates per behaviour

\* ---------------------------------------------------------------- domains
Users == {"u1", "u2"}
Clans == {"c1"}
Activities == {"hunt", "pets-1", "work"}

\* what the game bot's messages make the listeners insert: <<user, activity, channel,
\* time left, message>>
ListenerInputs ==
    {<<"u1", a, "ch1", 1, "m1">> : a \in Activities}
        \cup {<<"u1", "hunt", "ch2", 2, "m2">>, <<"u2", "hunt", "ch1", 1, "m1">>}
DonorTiers == {0, 1, 2}
NoPartner == "none"
DialogValues == {"confirm", "cancel", "timeout"}

\* str.startswith('pets') on the activity keys of the model
StartsWithPets(activity) == activity \in {"pets-1"}

\* Python's string order on the activity keys: "hunt" < "lottery" < "pets-1" < "work"
ActivityRank(activity) ==
    CASE activity = "guild" -> 0
      [] activity = "hunt" -> 1
      [] activity = "lottery" -> 2
      [] activity = "pets-1" -> 3
      [] activity = "work" -> 4

VARIABLES
    now,                    \* datetime.utcnow(), in clock units
    users,                  \* table "users": user id -> record
    clans,                  \* table "clans": clan name -> record
    store,                  \* the reminder rows
    scheduled_for_tasks,    \* hand-off map (insertion ordered dict, as a sequence)
    scheduled_for_deletion, \* hand-off map (insertion ordered dict, as a sequence)
    running_tasks,          \* tasks.running_tasks: task name -> timer id
    timers,                 \* live asyncio tasks: timer id -> list of reminders
    started,                \* the live timers that have reached their sleep: timer id ->
                            \* what the body read before it
    offView,                \* per user: the off command's confirmation dialog
    views,                  \* per user: the settings view the user has open
    writes,                 \* UPDATE statements executed by the last settings handler
    ops,                    \* number of budgeted operations so far
    donorOps,               \* number of donor-tier operations so far
    deletedEarly,           \* history: reminders deleted before their due instant
    deletedDrained,         \* history: those of deletedEarly a later drain tick has seen
    last,                   \* history: the last operation on the store or the settings
    sent,                   \* the reminder messages the bot has posted to channels
    sec,                    \* datetime.utcnow() in seconds, where the 55 second loop is watched
    loopNext,               \* the second of the next iteration of the reset_clans loop
    bodyRuns,               \* how often the body of reset_clans ran in the configured minute
    editActivity,           \* SettingsMessagesView.activity: the activity the editor shows
    messages,               \* table "users": the <activity>_message columns of the editing user
    reply,                  \* the editor's answer to the last click
    heal,                   \* the last hunt message the heal helper handled, and what it did
    modalReply,             \* the answer of the last submitted modal
    errorRows,              \* table "errors": the rows, oldest first
    logfile,                \* the plain-text log: the lines written, oldest first
    raised,                 \* the exception the last call of log_error left to its caller
    purgeRunning,           \* whether the loop delete_old_reminders is still scheduled
    heard,                  \* the last message the listeners saw, and what each of them did
    calendar,               \* the wall clock of the daily celebratory quest and its outcome
    listening,              \* per user: what a lottery listener holds while it is suspended
    clanViews,              \* the open clan and ready settings views and their Clan objects
    clanReply,              \* the answer to the last interaction with such a view
    clanWrites              \* the writes to the clans made through such views

vars == <<now, users, clans, store, scheduled_for_tasks, scheduled_for_deletion,
          running_tasks, timers, started, offView, views, writes, ops, donorOps,
          deletedEarly, deletedDrained, last, sent, sec, loopNext, bodyRuns,
          editActivity, messages, reply, heal, modalReply, errorRows, logfile, raised,
          purgeRunning, heard, calendar, listening, clanViews, clanReply, clanWrites>>

schedVars == <<store, scheduled_for_tasks, scheduled_for_deletion, running_tasks, timers,
               started>>
histVars == <<deletedEarly, deletedDrained>>
donorVars == <<views, writes, donorOps>>
loopVars == <<sec, loopNext, bodyRuns>>

editVars == <<editActivity, messages, reply>>

healVars == <<heal>>
modalVars == <<modalReply, clanViews, clanReply, clanWrites>>
errorVars == <<errorRows, logfile, raised, purgeRunning>>
listenVars == <<heard, calendar, listening>>

\* the state of the handlers that are watched on their own
calcVars == <<editVars, healVars, modalVars, errorVars, listenVars>>

auxVars == <<sent, loopVars, calcVars>>

\* ---------------------------------------------------------------- helpers
Range(f) == {f[x] : x \in DOMAIN f}

SeqToSet(seq) == {seq[i] : i \in 1..Len(seq)}

Last(op, target, activity, existed) ==
    [op |-> op, target |-> target, activity |-> activity, existed |-> existed]

\* ---------------------------------------------------------------- reminders
\* Reminder.task_name: user-<id>-<activity> / clan-<name>
TaskName(r) == <<r.rtype, r.target, r.activity>>

Reminder(rtype, target, activity, channel_id, end_time, message) ==
    [rtype |-> rtype, target |-> target, activity |-> activity,
     channel_id |-> channel_id, end_time |-> end_time, message |-> message]

\* dict[key] = value on an insertion ordered dict keyed by task name
DictSet(dict, r) ==
    IF \E i \in 1..Len(dict) : TaskName(dict[i]) = TaskName(r)
    THEN [i \in 1..Len(dict) |-> IF TaskName(dict[i]) = TaskName(r) THEN r ELSE dict[i]]
    ELSE Append(dict, r)

\* the rows of the store with the key (target, activity) of a reminder type
RowsOf(rows, rtype, target, activity) ==
    {r \in rows : r.rtype = rtype /\ r.target = target /\ r.activity = activity}

\* get_user_reminder / get_clan_reminder: the set is empty on NoDataFound
get_user_reminder(rows, user_id, activity) == RowsOf(rows, "user", user_id, activity)

get_clan_reminder(rows, clan_name) == RowsOf(rows, "clan", clan_name, "guild")

\* get_active_user_reminders(user_id): the non-expired rows of the user
get_active_user_reminders(rows, user_id, time) ==
    {r \in rows : r.rtype = "user" /\ r.target = user_id /\ r.end_time > time}

\* get_old_user_reminders + get_old_clan_reminders: rows past the purge tolerance
PurgeTolerance == 1

get_old_reminders(rows, time) == {r \in rows : r.end_time + PurgeTolerance <= time}

\* The store layer state an operation works on
DB(rows, tasks, deletion) == [store |-> rows, tasks |-> tasks, deletion |-> deletion]

\* a variant of the upsert that adds the new row and keeps the old one
UpsertRows_keep_old(rows, rtype, target, activity, channel_id, end_time, message, overwrite_message) ==
    rows \cup {Reminder(rtype, target, activity, channel_id, end_time, message)}

\* a variant of the upsert that replaces the message whatever the policy
UpsertRows_always_overwrite(rows, rtype, target, activity, channel_id, end_time, message, overwrite_message) ==
    (rows \ RowsOf(rows, rtype, target, activity))
        \cup {Reminder(rtype, target, activity, channel_id, end_time, message)}

\* the upsert of insert_user_reminder / insert_clan_reminder
UpsertRows(rows, rtype, target, activity, channel_id, end_time, message, overwrite_message) ==
    LET old == RowsOf(rows, rtype, target, activity)
        new == IF old = {} \/ overwrite_message
               THEN {Reminder(rtype, target, activity, channel_id, end_time, message)}
               ELSE {Reminder(rtype, target, activity, channel_id, end_time, o.message) : o \in old}
    IN  (rows \ old) \cup new

\* insert_user_reminder(user_id, activity, time_left, channel_id, message, overwrite_message):
\* a call with a negative time_left changes nothing
insert_user_reminder(db, time, user_id, activity, time_left, channel_id, message, overwrite_message) ==
    LET rows == UpsertRows(db.store, "user", user_id, activity, channel_id,
                           time + time_left, message, overwrite_message)
        r == CHOOSE x \in RowsOf(rows, "user", user_id, activity) : x.end_time = time + time_left
    IN  IF time_left < 0 THEN db ELSE [db EXCEPT !.store = rows, !.tasks = DictSet(db.tasks, r)]

\* insert_clan_reminder(clan_name, time_left, channel_id, message)
insert_clan_reminder(db, time, clan_name, time_left, channel_id, message) ==
    LET rows == UpsertRows(db.store, "clan", clan_name, "guild", channel_id,
                           time + time_left, message, TRUE)
        r == CHOOSE x \in RowsOf(rows, "clan", clan_name, "guild") : x.end_time = time + time_left
    IN  IF time_left < 0 THEN db ELSE [db EXCEPT !.store = rows, !.tasks = DictSet(db.tasks, r)]

\* Reminder.delete()
delete_reminder(db, r) ==
    [db EXCEPT !.store = db.store \ {r}, !.deletion = DictSet(db.deletion, r)]

RECURSIVE delete_all(_, _)
\* for reminder in reminders: await reminder.delete()
delete_all(db, rs) ==
    IF rs = {} THEN db
    ELSE LET r == CHOOSE x \in rs : \A y \in rs : x.end_time < y.end_time
                      \/ (x.end_time = y.end_time /\ ActivityRank(x.activity) <= ActivityRank(y.activity))
         IN  delete_all(delete_reminder(db, r), rs \ {r})

\* ---------------------------------------------------------------- scheduler
\* the scheduler's own state: running_tasks and the live asyncio tasks
Sched(running, live, retired) == [running |-> running, timers |-> live, retired |-> retired]

\* a timer id that is neither live nor registered nor cancelled in this drain tick
FreshId(s) ==
    LET used == DOMAIN s.timers \cup Range(s.running) \cup s.retired
    IN  CHOOSE i \in 1..(Cardinality(used) + 1) : i \notin used /\ \A j \in 1..(i - 1) : j \in used

\* TasksCog.delete_task(task_name)
delete_task(s, task_name) ==
    IF task_name \in DOMAIN s.running
    THEN Sched([n \in DOMAIN s.running \ {task_name} |-> s.running[n]],
               [i \in DOMAIN s.timers \ {s.running[task_name]} |-> s.timers[i]],
               s.retired \cup {s.running[task_name]})
    ELSE s

\* TasksCog.create_task(reminders_list)
create_task(s, reminders_list) ==
    LET task_name == TaskName(reminders_list[1])
        s1 == delete_task(s, task_name)
        id == FreshId(s1)
    IN  Sched([n \in DOMAIN s1.running \cup {task_name} |->
                  IF n = task_name THEN id ELSE s1.running[n]],
              [i \in DOMAIN s1.timers \cup {id} |->
                  IF i = id THEN reminders_list ELSE s1.timers[i]],
              s1.retired)

\* reminder_user_channel = f'{user_id}-{channel_id}-{end_time}'
reminder_user_channel(r) == <<r.target, r.channel_id, r.end_time>>

\* user_reminders[reminder_user_channel].append(reminder) / = [reminder,]
AddUserReminder(user_reminders, r) ==
    IF \E i \in 1..Len(user_reminders) :
           reminder_user_channel(user_reminders[i][1]) = reminder_user_channel(r)
    THEN [i \in 1..Len(user_reminders) |->
             IF reminder_user_channel(user_reminders[i][1]) = reminder_user_channel(r)
             THEN Append(user_reminders[i], r) ELSE user_reminders[i]]
    ELSE Append(user_reminders, <<r>>)

RECURSIVE CollectUserReminders(_, _)
\* first loop of schedule_tasks, user branch
CollectUserReminders(tasks, user_reminders) ==
    IF tasks = <<>> THEN user_reminders
    ELSE CollectUserReminders(Tail(tasks),
             IF Head(tasks).rtype = "user" THEN AddUserReminder(user_reminders, Head(tasks))
             ELSE user_reminders)

RECURSIVE CreateClanTasks(_, _)
\* first loop of schedule_tasks, clan branch
CreateClanTasks(s, tasks) ==
    IF tasks = <<>> THEN s
    ELSE CreateClanTasks(IF Head(tasks).rtype = "user" THEN s ELSE create_task(s, <<Head(tasks)>>),
                         Tail(tasks))

RECURSIVE DeleteTasks(_, _)
\* second loop of schedule_tasks
DeleteTasks(s, deletion) ==
    IF deletion = <<>> THEN s
    ELSE DeleteTasks(delete_task(s, TaskName(Head(deletion))), Tail(deletion))

RECURSIVE InsertByActivity(_, _)
\* one step of the stable sort: r goes behind every element that is not greater
InsertByActivity(sorted, r) ==
    IF sorted = <<>> THEN <<r>>
    ELSE IF ActivityRank(sorted[Len(sorted)].activity) <= ActivityRank(r.activity)
         THEN Append(sorted, r)
         ELSE Append(InsertByActivity(SubSeq(sorted, 1, Len(sorted) - 1), r), sorted[Len(sorted)])

RECURSIVE SortByActivity(_)
\* reminders_list.sort(key=lambda reminder: reminder.activity)
SortByActivity(reminders_list) ==
    IF reminders_list = <<>> THEN <<>>
    ELSE InsertByActivity(SortByActivity(SubSeq(reminders_list, 1, Len(reminders_list) - 1)),
                          reminders_list[Len(reminders_list)])

IsPet(r) == StartsWithPets(r.activity)

IsOther(r) == ~StartsWithPets(r.activity)

\* a variant of the batch order that sorts and does not move the pets to the end
OrderBatch_sorted_only(reminders_list) == SortByActivity(reminders_list)

\* other_reminders + pet_reminders of the sorted list
OrderBatch(reminders_list) ==
    LET sorted == SortByActivity(reminders_list)
    IN  SelectSeq(sorted, IsOther) \o SelectSeq(sorted, IsPet)

RECURSIVE OrderBatches(_)
\* the lists the third loop of schedule_tasks hands to create_task
OrderBatches(user_reminders) ==
    IF user_reminders = <<>> THEN <<>>
    ELSE <<OrderBatch(Head(user_reminders))>> \o OrderBatches(Tail(user_reminders))

RECURSIVE CreateUserTasks(_, _)
\* third loop of schedule_tasks
CreateUserTasks(s, batches) ==
    IF batches = <<>> THEN s
    ELSE CreateUserTasks(create_task(s, Head(batches)), Tail(batches))

\* schedule_tasks: the three loops in the order of the code
DrainSched(s, tasks, deletion) ==
    LET s1 == CreateClanTasks(s, tasks)
        s2 == DeleteTasks(s1, deletion)
    IN  CreateUserTasks(s2, OrderBatches(CollectUserReminders(tasks, <<>>)))

\* ---------------------------------------------------------------- users
NoUser == [exists |-> FALSE, user_id |-> "none", bot_enabled |-> FALSE,
           partner_id |-> NoPartner, user_donor_tier |-> 0, partner_donor_tier |-> 0,
           heal_warning_enabled |-> FALSE, dnd_mode_enabled |-> FALSE,
           ping_after_message |-> FALSE, alert_lottery_enabled |-> FALSE,
           last_tt |-> <<0, 0>>, reactions_enabled |-> FALSE, alert_arena_enabled |-> FALSE,
           alert_farm_enabled |-> FALSE, alert_horse_breed_enabled |-> FALSE,
           alert_big_arena_enabled |-> FALSE, alert_pet_tournament_enabled |-> FALSE,
           alert_horse_race_enabled |-> FALSE, last_farm_seed |-> "none"]

\* insert_user(user_id): a row with the column defaults
insert_user(table, user_id, default_enabled) ==
    [table EXCEPT ![user_id] = [NoUser EXCEPT !.exists = TRUE, !.user_id = user_id,
                                              !.bot_enabled = default_enabled]]

\* get_user(user_id): the row as a User object; a caller finding exists = FALSE is the
\* caller receiving FirstTimeUserError
get_user(table, user_id) == IF user_id \in DOMAIN table THEN table[user_id] ELSE NoUser

\* UPDATE users SET <kwargs> WHERE user_id = <user.user_id>: one statement on the table
execute(st, user, kwargs) ==
    [st EXCEPT
        !.table = IF get_user(st.table, user.user_id).exists
                  THEN [st.table EXCEPT ![user.user_id] =
                            [f \in DOMAIN @ |-> IF f \in DOMAIN kwargs THEN kwargs[f] ELSE @[f]]]
                  ELSE st.table,
        !.writes = @ + 1]

RECURSIVE update(_, _, _)

\* a variant of _update_user that writes the one record and never cascades
_update_user_no_cascade(st, user, kwargs) == execute(st, user, kwargs)

\* _update_user(user, **kwargs): the statement, then the cascade to the partner when
\* user_donor_tier is among kwargs and the User object has a partner
_update_user(st, user, kwargs) ==
    LET written == execute(st, user, kwargs)
    IN  IF "user_donor_tier" \in DOMAIN kwargs /\ user.partner_id # NoPartner
        THEN LET partner == get_user(written.table, user.partner_id)
             IN  IF partner.exists
                 THEN update(written, partner, [partner_donor_tier |-> kwargs.user_donor_tier])
                 ELSE [written EXCEPT !.error = "FirstTimeUserError"]
        ELSE written

\* User.update(**kwargs) on the table; the refresh() that follows changes the object only
update(st, user, kwargs) == _update_user(st, user, kwargs)

\* User.refresh(): the object takes the stored values of its own row
refresh(table, user) == get_user(table, user.user_id)

\* the table before a handler runs
Statement(table) == [table |-> table, writes |-> 0, error |-> "none"]

\* a settings view: its kind, the User objects it holds, and whether its partner donor
\* tier select is disabled
NoView == [kind |-> "none", user_settings |-> NoUser, partner_settings |-> NoUser,
           partner_select_disabled |-> FALSE]

\* ---------------------------------------------------------------- reminder messages
\* the characters of a reminder message: the two braces and two letters
Chars == {"{", "}", "a", "b"}

MaxLen == 3

Messages == UNION {[1 .. n -> Chars] : n \in 0 .. MaxLen}

\* the activities of the editor
EditActivities == {"hunt", "daily"}

\* strings.DEFAULT_MESSAGES: a template with the placeholder {a} followed by text, and a
\* template without placeholders
DEFAULT_MESSAGES == [hunt |-> <<"{", "a", "}", "b">>, daily |-> <<"b">>]

\* the longest message the editor takes
MessageLimit == 1024

Min(S) == CHOOSE x \in S : \A y \in S : x <= y

RECURSIVE finditer(_, _)
\* re.finditer('\{(.+?)\}', s) from position i: the groups of the matches, left to right;
\* a match is an opening brace, at least one character, and the first closing brace after
finditer(s, i) ==
    IF i > Len(s) THEN <<>>
    ELSE LET closes == {j \in (i + 2) .. Len(s) : s[j] = "}"}
         IN  IF s[i] # "{" \/ closes = {} THEN finditer(s, i + 1)
             ELSE <<SubSeq(s, i + 1, Min(closes) - 1)>> \o finditer(s, Min(closes) + 1)

\* str.__contains__: p in s
Contains(s, p) == \E i \in 0 .. (Len(s) - Len(p)) : SubSeq(s, i + 1, i + Len(p)) = p

\* placeholder_str not in strings.DEFAULT_MESSAGES[activity], negated
PlaceholderAllowed(placeholder_str, activity) ==
    Contains(DEFAULT_MESSAGES[activity], placeholder_str)

\* the placeholder loop of the set_message branch: no placeholder is refused
PlaceholdersPass(new_message, activity) ==
    \A i \in 1 .. Len(finditer(new_message, 1)) :
        PlaceholderAllowed(finditer(new_message, 1)[i], activity)

\* the answers wait_for can give: none in time, an abort word, or a text
Answers ==
    {[kind |-> "timeout", mentions_other |-> FALSE, content |-> <<>>],
     [kind |-> "abort", mentions_other |-> FALSE, content |-> <<>>]}
    \cup [kind : {"text"}, mentions_other : BOOLEAN, content : Messages]

\* SetReminderMessageButton.callback with custom_id set_message
SetMessage(answer) ==
    /\ editActivity \in EditActivities
    /\ LET new_message == answer.content
       IN  IF answer.kind = "timeout" THEN reply' = "timeout" /\ UNCHANGED messages
           ELSE IF answer.mentions_other THEN reply' = "aborted_ping" /\ UNCHANGED messages
           ELSE IF answer.kind = "abort" THEN reply' = "aborted" /\ UNCHANGED messages
           ELSE IF Len(new_message) > MessageLimit THEN reply' = "too_long" /\ UNCHANGED messages
           ELSE IF ~PlaceholdersPass(new_message, editActivity)
                THEN reply' = "invalid_placeholder" /\ UNCHANGED messages
           ELSE /\ reply' = "updated"
                /\ messages' = [messages EXCEPT ![editActivity] = new_message]
    /\ UNCHANGED <<now, users, clans, schedVars, offView, donorVars, ops, histVars, last, sent,
                   loopVars, listenVars, editActivity, healVars, modalVars, errorVars>>

\* SetReminderMessageButton.callback with custom_id reset_message
ResetMessage ==
    /\ editActivity \in EditActivities
    /\ messages' = [messages EXCEPT ![editActivity] = DEFAULT_MESSAGES[editActivity]]
    /\ reply' = "reset"
    /\ UNCHANGED <<now, users, clans, schedVars, offView, donorVars, ops, histVars, last, sent,
                   loopVars, listenVars, editActivity, healVars, modalVars, errorVars>>

\* SetReminderMessageButton.callback with custom_id reset_all, behind the confirmation
ResetAllMessages(value) ==
    /\ editActivity = "all"
    /\ IF value = "confirm"
       THEN messages' = DEFAULT_MESSAGES /\ reply' = "reset_all"
       ELSE reply' = "aborted" /\ UNCHANGED messages
    /\ UNCHANGED <<now, users, clans, schedVars, offView, donorVars, ops, histVars, last, sent,
                   loopVars, listenVars, editActivity, healVars, modalVars, errorVars>>

\* no reminder-message editor is open
EditorIdle ==
    /\ editActivity = "all"
    /\ messages = DEFAULT_MESSAGES
    /\ reply = "none"

\* ---------------------------------------------------------------- error log
\* the chat context log_error is called with: none, or a message written by a registered
\* player, by an unregistered player or by a bot
Contexts == {"none", "player", "stranger", "bot"}

\* the kinds of the first argument: an exception or a plain string
ErrorKinds == {"exception", "string"}

MaxRows == 3

\* the errors table, the plain-text log and the exception left to the caller
ErrorState(rows, log, exc) == [rows |-> rows, log |-> log, raised |-> exc]

\* the row log_error inserts
ErrorRow(time, error, ctx) ==
    [date_time |-> time,
     message_content |-> IF ctx = "none" THEN "N/A" ELSE "content",
     error |-> error,
     user_settings |-> IF ctx = "player" THEN "settings" ELSE "N/A",
     jump_url |-> IF ctx = "none" THEN "N/A" ELSE "jump_url"]

\* logs.logger.error(msg, *args): a line is written unless the call carries an argument
\* the message has no conversion for, in which case the logging package drops the record
logger_error(log, line, args) == IF args = <<>> THEN Append(log, line) ELSE log

\* log_error(error, ctx) when the insert succeeds (db_fails = FALSE) or raises
\* sqlite3.Error (db_fails = TRUE)
log_error(es, time, error, ctx, db_fails) ==
    IF db_fails
    THEN ErrorState(es.rows,
                    logger_error(es.log, "INTERNAL_ERROR_SQLITE3",
                                 IF ctx # "none" THEN <<ctx>> ELSE <<>>),
                    "sqlite3.Error")
    ELSE ErrorState(Append(es.rows, ErrorRow(time, error, ctx)),
                    logger_error(es.log, "error", <<>>),
                    "none")

\* a caller logs an error
LogError(error, ctx, db_fails) ==
    /\ Len(errorRows) < MaxRows
    /\ Len(logfile) < MaxRows
    /\ LET es == log_error(ErrorState(errorRows, logfile, raised), now, error, ctx, db_fails)
       IN  /\ errorRows' = es.rows
           /\ logfile' = es.log
           /\ raised' = es.raised
    /\ UNCHANGED <<now, users, clans, schedVars, offView, donorVars, ops, histVars, last, sent,
                   loopVars, listenVars, editVars, healVars, modalVars, purgeRunning>>

\* ---------------------------------------------------------------- heal helper
MaxHealth == 3

\* the health values of the hunt messages: small ones, and those around the threshold
HealthValues == (0 .. MaxHealth) \cup {9, 10, 50, 55, 60, 100}

\* a hunt-together message: one with the health lost and remaining, one that only says
\* the player lost, and one with neither
HuntMessages ==
    [kind : {"health"}, lost : HealthValues, remaining : HealthValues]
    \cup {[kind |-> "lost_but", lost |-> 0, remaining |-> 0],
          [kind |-> "unknown", lost |-> 0, remaining |-> 0]}

\* the values taken when the message says the player lost without numbers
FallbackLost == 100

FallbackRemaining == 0

HealDivisor == 9

\* the test with the quotient rounded down to a whole number
HealNeeded_floor_division(health_lost, health_remaining) ==
    health_lost > health_remaining - (health_lost \div HealDivisor)

\* health_lost > (health_remaining - (health_lost / 9)): "/" is the true division, so
\* both sides are taken times 9 to stay in whole numbers
HealNeeded(health_lost, health_remaining) ==
    HealDivisor * health_lost > HealDivisor * health_remaining - health_lost

\* the three wordings of the warning
Warnings == {"warning_name", "warning_mention_last", "warning_mention_first"}

\* HelperHealCog.on_message for a hunt-together message m of player u
HelperHealOnMessage(u, m, db_fails) ==
    LET user_settings == get_user(users, u)
        health_lost == IF m.kind = "health" THEN m.lost ELSE FallbackLost
        health_remaining == IF m.kind = "health" THEN m.remaining ELSE FallbackRemaining
        Out(o) == [user |-> u, kind |-> m.kind, lost |-> m.lost, remaining |-> m.remaining,
                   out |-> o]
        es == log_error(ErrorState(errorRows, logfile, raised), now, "string", "bot", db_fails)
    IN  /\ Len(errorRows) < MaxRows
        /\ Len(logfile) < MaxRows
        /\ db_fails => m.kind = "unknown"
        /\ IF ~user_settings.exists
              THEN heal' = Out("not_registered") /\ UNCHANGED errorVars
           ELSE IF ~user_settings.bot_enabled \/ ~user_settings.heal_warning_enabled
              THEN heal' = Out("disabled") /\ UNCHANGED errorVars
           ELSE IF m.kind = "unknown"
              THEN /\ heal' = Out("log_error")
                   /\ errorRows' = es.rows
                   /\ logfile' = es.log
                   /\ raised' = es.raised
                   /\ UNCHANGED purgeRunning
           ELSE /\ heal' = Out(IF ~HealNeeded(health_lost, health_remaining) THEN "no_warning"
                               ELSE IF user_settings.dnd_mode_enabled THEN "warning_name"
                               ELSE IF user_settings.ping_after_message THEN "warning_mention_last"
                               ELSE "warning_mention_first")
                /\ UNCHANGED errorVars
        /\ UNCHANGED <<now, users, clans, schedVars, offView, donorVars, ops, histVars, last,
                       sent, loopVars, listenVars, editVars, modalVars>>

\* ---------------------------------------------------------------- lottery
\* the clock of the lottery listener counts hours
MaxHour == 26

DayHours == 24

NoonHour == 12

\* datetime.replace(hour=0, minute=0, second=0, microsecond=0)
Midnight(time) == (time \div DayHours) * DayHours

\* the time left without the branch for a today_12am that lies after current_time
LotteryTimeLeft_two_branches(current_time, read_12pm, read_12am) ==
    IF Midnight(read_12pm) + NoonHour > current_time
    THEN Midnight(read_12pm) + NoonHour - current_time
    ELSE Midnight(read_12am) + DayHours - current_time

\* time_left of the over-limit path: current_time, today_12pm and today_12am come from
\* three readings of the clock, the second and third at read_12pm and read_12am
LotteryTimeLeft(current_time, read_12pm, read_12am) ==
    LET today_12pm == Midnight(read_12pm) + NoonHour
        today_12am == Midnight(read_12am)
        tomorrow_12am == today_12am + DayHours
    IN  IF today_12am > current_time THEN today_12am - current_time
        ELSE IF today_12pm > current_time THEN today_12pm - current_time
        ELSE tomorrow_12am - current_time

\* an hour passes
Hour ==
    /\ now < MaxHour
    /\ now' = now + 1
    /\ UNCHANGED <<users, clans, schedVars, offView, donorVars, ops, histVars, last, sent,
                   loopVars, calcVars>>

\* LotteryCog.on_message, "you cannot buy more than 10 tickets": d12pm, d12am and dinsert
\* tell whether the clock has passed a full hour before the reading of today_12pm, of
\* today_12am and of the insert
LotteryOnMessage(u, d12pm, d12am, dinsert) ==
    LET user_settings == get_user(users, u)
        current_time == now
        read_12pm == current_time + d12pm
        read_12am == read_12pm + d12am
        time_left == LotteryTimeLeft(current_time, read_12pm, read_12am)
        db == insert_user_reminder(DB(store, scheduled_for_tasks, scheduled_for_deletion),
                                   read_12am + dinsert, u, "lottery", time_left, "ch1",
                                   "lottery amount: [1-10]", TRUE)
    IN  /\ now + 3 <= MaxHour
        /\ IF ~user_settings.exists \/ ~user_settings.bot_enabled
              \/ ~user_settings.alert_lottery_enabled
           THEN /\ last' = Last("lottery_ignored", u, "lottery", FALSE)
                /\ UNCHANGED <<now, store, scheduled_for_tasks, histVars>>
           ELSE /\ store' = db.store
                /\ scheduled_for_tasks' = db.tasks
                /\ deletedEarly' = deletedEarly \ db.store
                /\ deletedDrained' = deletedDrained \ db.store
                /\ now' = read_12am + dinsert
                /\ last' = Last("lottery", u, "lottery",
                                get_user_reminder(store, u, "lottery") # {})
        /\ UNCHANGED <<users, clans, scheduled_for_deletion, running_tasks, timers, started, offView,
                       donorVars, ops, sent, loopVars, calcVars>>

\* ---------------------------------------------------------------- listeners
\* settings.EPIC_RPG_ID: the game bot
EPIC_RPG_ID == "game_bot"

\* who writes the messages the listeners see: the game bot, another bot and a player
Authors == {EPIC_RPG_ID, "other_bot", "u1"}

\* message.author.bot
AuthorIsBot(author) == author \in {EPIC_RPG_ID, "other_bot"}

\* what the text of a message matches: one kind per search string of the cogs, and
\* "other" for a text no cog looks for
Kinds ==
    {"arena_cooldown", "horse_cooldown", "farm_cooldown", "farm_planted", "farm_event",
     "farm_event_slash", "lottery_event", "lottery_buy", "lottery_limit", "cel_dailyquest",
     "cel_multiply", "cel_multiply_reject", "events_normal", "navi_lit", "fun_jail",
     "fun_lost_pet", "hunt_together", "hunt_solo", "other"}

\* message.embeds: the kinds whose search string is looked for in an embed
EmbedKinds ==
    {"arena_cooldown", "horse_cooldown", "farm_cooldown", "lottery_event", "events_normal",
     "fun_lost_pet"}

\* the activities of the field "normal events"
EventActivities == {"big-arena", "lottery", "pet-tournament", "horse-race"}

\* the user names a message text can carry: none, the name of a player, or a name no
\* member of the guild has
Names == {"none", "ghost"} \cup Users

\* minutes a timestring of a message can show, and minutes between the game bot's answer
\* and the handler
Timestrings == {1, 2}
Elapsed == {0, 2}

\* the lines of the field "normal events": the activities with a line -> timestring
CooldownLines ==
    {cd \in UNION {[S -> Timestrings] : S \in SUBSET EventActivities} :
        \A a \in DOMAIN cd \cap {"big-arena", "horse-race"} : cd[a] = 2}

\* message.components: the disabled flags of the buttons, none for a message without
ComponentSets == {<<>>, <<FALSE>>, <<TRUE, FALSE>>, <<TRUE, TRUE>>}

\* what a handler reads of a message of a kind; every other part of the message has the
\* one value NoField
FieldsRead(kind) ==
    CASE kind = "arena_cooldown" -> {"interaction_user", "name", "history_user", "timestring", "elapsed"}
      [] kind = "horse_cooldown" -> {"interaction_user", "name", "timestring", "elapsed"}
      [] kind = "farm_cooldown" -> {"interaction_user", "name", "history_user", "timestring", "elapsed"}
      [] kind = "farm_planted" -> {"interaction_user", "name", "history_user", "elapsed"}
      [] kind = "farm_event" -> {"interaction_user", "name", "history_user", "elapsed"}
      [] kind = "farm_event_slash" -> {"interaction_user", "elapsed"}
      [] kind = "lottery_event" -> {"interaction_user", "history_user", "timestring", "elapsed"}
      [] kind = "lottery_buy" -> {"interaction_user", "name", "history_user", "timestring", "elapsed"}
      [] kind = "lottery_limit" -> {"interaction_user", "mention"}
      [] kind = "cel_dailyquest" -> {}
      [] kind = "cel_multiply" -> {"history_user", "elapsed"}
      [] kind = "cel_multiply_reject" -> {"mention", "timestring"}
      [] kind = "events_normal" -> {"history_user", "elapsed", "cooldowns"}
      [] kind = "navi_lit" -> {}
      [] kind = "fun_jail" -> {"interaction_user", "name", "history_user"}
      [] kind = "fun_lost_pet" -> {"interaction_user", "history_user"}
      [] kind = "hunt_together" -> {"interaction_user", "name", "history_user", "health"}
      [] kind = "hunt_solo" -> {"interaction_user", "name", "history_user", "health"}
      [] OTHER -> {}

NoCooldowns == [a \in {} |-> 1]

FieldValues(kind, field, values, default) ==
    IF field \in FieldsRead(kind) THEN values ELSE {default}

\* the messages of one kind
MessagesOf(kind) ==
    {[author |-> author, kind |-> kind, interaction_user |-> interaction_user, name |-> name,
      history_user |-> history_user, mention |-> mention, timestring |-> timestring,
      elapsed |-> elapsed, cooldowns |-> cooldowns, health |-> health] :
        author \in Authors,
        interaction_user \in FieldValues(kind, "interaction_user", {"none", "u1"}, "none"),
        name \in FieldValues(kind, "name", Names, "none"),
        history_user \in FieldValues(kind, "history_user", {"none", "u1"}, "none"),
        mention \in FieldValues(kind, "mention", {"none", "u1"}, "none"),
        timestring \in FieldValues(kind, "timestring", Timestrings, 1),
        elapsed \in FieldValues(kind, "elapsed", Elapsed, 0),
        cooldowns \in FieldValues(kind, "cooldowns", CooldownLines, NoCooldowns),
        health \in FieldValues(kind, "health", {<<0, 1>>, <<1, 0>>}, <<0, 1>>)}

ChatMessages == UNION {MessagesOf(kind) : kind \in Kinds}

NoMessage ==
    [author |-> "none", kind |-> "none", interaction_user |-> "none", name |-> "none",
     history_user |-> "none", mention |-> "none", timestring |-> 1, elapsed |-> 0,
     cooldowns |-> NoCooldowns, health |-> <<0, 1>>]

\* the cogs with a listener, in the order they are loaded
Cogs == <<"arena", "events", "farm", "fun", "helper_heal", "horse", "lottery">>

\* one call a handler makes: a reaction, a line of the error log, an insertion, a settings
\* write, a message or reply, or an exception that leaves the handler
Call(op, user, arg, time_left, overwrite_message) ==
    [op |-> op, user |-> user, arg |-> arg, time_left |-> time_left,
     overwrite_message |-> overwrite_message]

AddReaction(emoji) == Call("add_reaction", "none", emoji, 0, FALSE)
LogErrorCall(text) == Call("log_error", "none", text, 0, FALSE)
Send(text, user) == Call("send", user, text, 0, FALSE)
Reply(text) == Call("reply", "none", text, 0, FALSE)
UpdateCall(user, seed) == Call("update", user, seed, 0, FALSE)
Raise(exception) == Call("raise", "none", exception, 0, FALSE)
InsertCall(user, activity, time_left, overwrite_message) ==
    Call("insert_user_reminder", user, activity, time_left, overwrite_message)

\* functions.add_warning_reaction(message), then errors.log_error(text, message)
Warn(text) == <<AddReaction("WARNING"), LogErrorCall(text)>>

\* functions.get_interaction_user(message)
get_interaction_user(message) == message.interaction_user

\* functions.get_guild_member_by_name(guild, user_name): the players carry their names
get_guild_member_by_name(user_name) == IF user_name \in Users THEN user_name ELSE "none"

\* functions.get_message_from_channel_history(channel, regex, user_name=...): the author
\* of the last matching command, of the named player when a name is given
get_message_from_channel_history(message, user_name) ==
    IF user_name = "none" \/ message.history_user = user_name
    THEN message.history_user ELSE "none"

\* functions.calculate_time_left_from_timestring(message, timestring): the timestring
\* less the time since the game bot answered
calculate_time_left_from_timestring(message) == message.timestring - message.elapsed

\* the farm cooldown of the donor tiers of the model, in minutes
FarmCooldown == 1

\* functions.calculate_time_left_from_cooldown(message, user_settings, 'farm')
calculate_time_left_from_cooldown(message) == FarmCooldown - message.elapsed

\* whether the Reminder that insert_user_reminder returns has record_exists set
RecordExists(rows, user, activity, time_left) ==
    time_left >= 0 \/ get_user_reminder(rows, user, activity) # {}

\* functions.add_reminder_reaction(message, reminder, user_settings), DEBUG_MODE off
add_reminder_reaction(record_exists, user_settings) ==
    IF record_exists /\ user_settings.reactions_enabled THEN <<AddReaction("NAVI")>> ELSE <<>>

\* reminders.insert_user_reminder(...) followed by functions.add_reminder_reaction(...)
InsertAndReact(rows, user_settings, activity, time_left) ==
    <<InsertCall(user_settings.user_id, activity, time_left, TRUE)>>
        \o add_reminder_reaction(RecordExists(rows, user_settings.user_id, activity, time_left),
                                 user_settings)

\* the arena listener without the check of the author
ArenaCog_any_author(message, table, rows) ==
    LET interaction_user ==
            IF get_interaction_user(message) # "none" THEN get_interaction_user(message)
            ELSE get_message_from_channel_history(message, "none")
        user_settings == get_user(table, interaction_user)
        time_left == calculate_time_left_from_timestring(message)
    IN  IF message.kind # "arena_cooldown" \/ interaction_user = "none"
           \/ get_guild_member_by_name(message.name) # interaction_user
           \/ ~user_settings.exists \/ ~user_settings.bot_enabled
           \/ ~user_settings.alert_arena_enabled \/ time_left < 0
        THEN <<>>
        ELSE InsertAndReact(rows, user_settings, "arena", time_left)

\* ArenaCog.on_message
ArenaCog(message, table, rows) ==
    IF message.author # EPIC_RPG_ID \/ message.kind \notin EmbedKinds
       \/ message.kind # "arena_cooldown"
    THEN <<>>
    ELSE
    LET interaction_user ==
            IF get_interaction_user(message) # "none" THEN get_interaction_user(message)
            ELSE get_message_from_channel_history(message, "none")
        embed_user == get_guild_member_by_name(message.name)
        user_settings == get_user(table, interaction_user)
        time_left == calculate_time_left_from_timestring(message)
    IN  IF interaction_user = "none"
        THEN Warn("Interaction user not found for arena cooldown message.")
        ELSE IF message.name = "none" \/ embed_user = "none"
        THEN Warn("Embed user not found for arena cooldown message.")
        ELSE IF embed_user # interaction_user THEN <<>>
        ELSE IF ~user_settings.exists THEN <<>>
        ELSE IF ~user_settings.bot_enabled \/ ~user_settings.alert_arena_enabled THEN <<>>
        ELSE IF time_left < 0 THEN <<>>
        ELSE InsertAndReact(rows, user_settings, "arena", time_left)

\* HorseCog.on_message
HorseCog(message, table, rows) ==
    IF message.author # EPIC_RPG_ID \/ message.kind \notin EmbedKinds
       \/ message.kind # "horse_cooldown"
    THEN <<>>
    ELSE
    LET user == IF get_interaction_user(message) # "none" THEN get_interaction_user(message)
                ELSE get_guild_member_by_name(message.name)
        user_settings == get_user(table, user)
        time_left == calculate_time_left_from_timestring(message)
    IN  IF get_interaction_user(message) = "none" /\ message.name = "none"
        THEN Warn("User not found in horse cooldown message.")
        ELSE IF user = "none" THEN Warn("User not found in horse cooldown message.")
        ELSE IF ~user_settings.exists THEN <<>>
        ELSE IF ~user_settings.bot_enabled \/ ~user_settings.alert_horse_breed_enabled THEN <<>>
        ELSE InsertAndReact(rows, user_settings, "horse", time_left)

\* the seed a farm command or a planting message names
Seed == "carrot"

\* FarmCog.on_message, the four messages it looks for; tracking and auto-ready are
\* switched off for the players of the model
FarmCog(message, table, rows) ==
    IF message.author # EPIC_RPG_ID THEN <<>>
    ELSE IF message.kind = "farm_cooldown"
    THEN LET interaction == get_interaction_user(message)
             slash_command == interaction # "none"
             user_command_message == get_message_from_channel_history(message, message.name)
             user == IF slash_command THEN interaction ELSE user_command_message
             user_settings == get_user(table, user)
             time_left == calculate_time_left_from_timestring(message)
             written == IF slash_command THEN <<>> ELSE <<UpdateCall(user, Seed)>>
         IN  IF ~slash_command /\ message.name = "none"
             THEN Warn("User not found in farm cooldown message.")
             ELSE IF ~slash_command /\ user_command_message = "none"
             THEN Warn("Couldn't find a command for the farm cooldown message.")
             ELSE IF ~user_settings.exists THEN <<>>
             ELSE IF ~user_settings.bot_enabled \/ ~user_settings.alert_farm_enabled THEN <<>>
             ELSE IF time_left < 0 THEN written
             ELSE written \o InsertAndReact(rows, user_settings, "farm", time_left)
    ELSE IF message.kind = "farm_planted"
    THEN LET interaction == get_interaction_user(message)
             user_command_message ==
                 IF message.name = "none" THEN "none"
                 ELSE get_message_from_channel_history(message, message.name)
             user == IF interaction # "none" THEN interaction ELSE user_command_message
             user_settings == get_user(table, user)
             time_left == calculate_time_left_from_cooldown(message)
         IN  IF interaction = "none" /\ (message.name = "none" \/ user_command_message = "none")
             THEN Warn("User not found for farm message.")
             ELSE IF ~user_settings.exists THEN <<>>
             ELSE IF ~user_settings.bot_enabled THEN <<>>
             ELSE IF ~user_settings.alert_farm_enabled THEN <<>>
             ELSE IF time_left < 0 THEN <<UpdateCall(user, Seed)>>
             ELSE <<UpdateCall(user, Seed)>> \o InsertAndReact(rows, user_settings, "farm", time_left)
    ELSE IF message.kind = "farm_event"
    THEN LET user_command_message ==
                 IF message.name = "none" THEN "none"
                 ELSE get_message_from_channel_history(message, message.name)
             user_settings == get_user(table, user_command_message)
             time_left == calculate_time_left_from_cooldown(message)
         IN  IF get_interaction_user(message) # "none" THEN <<>>
             ELSE IF message.name = "none" \/ user_command_message = "none"
             THEN Warn("User not found in farm event non-slash message.")
             ELSE IF ~user_settings.exists THEN <<>>
             ELSE IF ~user_settings.bot_enabled THEN <<>>
             ELSE IF ~user_settings.alert_farm_enabled THEN <<>>
             ELSE IF time_left < 0 THEN <<>>
             ELSE InsertAndReact(rows, user_settings, "farm", time_left)
    ELSE IF message.kind = "farm_event_slash"
    THEN LET user_settings == get_user(table, get_interaction_user(message))
             time_left == calculate_time_left_from_cooldown(message)
         IN  IF get_interaction_user(message) = "none" THEN <<>>
             ELSE IF ~user_settings.exists THEN <<>>
             ELSE IF ~user_settings.bot_enabled THEN <<>>
             ELSE IF ~user_settings.alert_farm_enabled THEN <<>>
             ELSE IF time_left < 0 THEN <<>>
             ELSE InsertAndReact(rows, user_settings, "farm", time_left)
    ELSE <<>>

\* LotteryCog.on_message, the three messages it looks for; the over-limit message takes
\* the player from message.mentions[0] when there is no interaction
LotteryCog(message, table, rows, time) ==
    IF message.author # EPIC_RPG_ID THEN <<>>
    ELSE IF message.kind = "lottery_event"
    THEN LET user == IF get_interaction_user(message) # "none" THEN get_interaction_user(message)
                     ELSE get_message_from_channel_history(message, "none")
             user_settings == get_user(table, user)
             time_left == calculate_time_left_from_timestring(message)
         IN  IF user = "none" THEN Warn("Couldn't find a command for the lottery event message.")
             ELSE IF ~user_settings.exists THEN <<>>
             ELSE IF ~user_settings.bot_enabled \/ ~user_settings.alert_lottery_enabled THEN <<>>
             ELSE IF get_user_reminder(rows, user, "lottery") = {} THEN <<>>
             ELSE IF time_left < 0 THEN <<>>
             ELSE InsertAndReact(rows, user_settings, "lottery", time_left)
    ELSE IF message.kind = "lottery_buy"
    THEN LET interaction == get_interaction_user(message)
             user_command_message ==
                 IF message.name = "none" THEN "none"
                 ELSE get_message_from_channel_history(message, message.name)
             user == IF interaction # "none" THEN interaction ELSE user_command_message
             user_settings == get_user(table, user)
             time_left == calculate_time_left_from_timestring(message)
         IN  IF interaction = "none" /\ (message.name = "none" \/ user_command_message = "none")
             THEN Warn("User not found in buy lottery ticket message.")
             ELSE IF ~user_settings.exists THEN <<>>
             ELSE IF ~user_settings.bot_enabled \/ ~user_settings.alert_lottery_enabled THEN <<>>
             ELSE IF time_left < 0 THEN <<>>
             ELSE InsertAndReact(rows, user_settings, "lottery", time_left)
    ELSE IF message.kind = "lottery_limit"
    THEN LET user == IF get_interaction_user(message) # "none" THEN get_interaction_user(message)
                     ELSE message.mention
             user_settings == get_user(table, user)
             time_left == LotteryTimeLeft(time, time, time)
         IN  IF get_interaction_user(message) = "none" /\ message.mention = "none"
             THEN <<Raise("IndexError")>>
             ELSE IF ~user_settings.exists THEN <<>>
             ELSE IF ~user_settings.bot_enabled \/ ~user_settings.alert_lottery_enabled THEN <<>>
             ELSE InsertAndReact(rows, user_settings, "lottery", time_left)
    ELSE <<>>

\* minutes of a day, and of the twelve hours of the cel multiply cooldown
DayMinutes == 1440
TwelveHours == 720

\* the time left of the loop without the extra minute of the pet tournament
EventTimeLeft_no_extra_minute(message, cd_activity) ==
    message.cooldowns[cd_activity] - message.elapsed

\* the time left the loop computes for a line: the parsed timestring, one minute more for
\* the pet tournament, less the time since the game bot answered
EventTimeLeft(message, cd_activity) ==
    (IF cd_activity = "pet-tournament" THEN message.cooldowns[cd_activity] + 1
     ELSE message.cooldowns[cd_activity]) - message.elapsed

RECURSIVE EventsLoop(_, _, _, _, _, _)
\* EventsCog.on_message, the loop over cooldowns: the calls it makes, and whether a
\* reminder was found
EventsLoop(cooldowns, message, user, rows, calls, updated_reminder) ==
    IF cooldowns = <<>>
    THEN calls \o (IF updated_reminder THEN <<AddReaction("NAVI")>> ELSE <<>>)
    ELSE LET cd_activity == Head(cooldowns)
             time_left == EventTimeLeft(message, cd_activity)
         IN  IF get_user_reminder(rows, user, cd_activity) = {}
             THEN EventsLoop(Tail(cooldowns), message, user, rows, calls, updated_reminder)
             ELSE EventsLoop(Tail(cooldowns), message, user, rows,
                             IF time_left > 0
                             THEN Append(calls, InsertCall(user, cd_activity, time_left, FALSE))
                             ELSE calls,
                             TRUE)

\* the alert switch of an activity of the field "normal events"
EventAlertEnabled(user_settings, activity) ==
    CASE activity = "big-arena" -> user_settings.alert_big_arena_enabled
      [] activity = "lottery" -> user_settings.alert_lottery_enabled
      [] activity = "pet-tournament" -> user_settings.alert_pet_tournament_enabled
      [] activity = "horse-race" -> user_settings.alert_horse_race_enabled

\* the order in which the handler looks for the lines of the field
EventOrder == <<"big-arena", "lottery", "pet-tournament", "horse-race">>

\* the list cooldowns of the handler, in the order it is filled
EventCooldowns(message, user_settings) ==
    SelectSeq(EventOrder,
              LAMBDA a : EventAlertEnabled(user_settings, a) /\ a \in DOMAIN message.cooldowns)

\* EventsCog.on_message: the text command of any author first, then the messages of the
\* game bot; the day of the text command is not the last of its month
EventsCog(message, table, rows, time) ==
    IF message.kind \notin EmbedKinds /\ message.kind = "cel_dailyquest"
    THEN LET user_settings == get_user(table, message.author)
         IN  IF ~user_settings.exists \/ ~user_settings.bot_enabled THEN <<>>
             ELSE <<InsertCall(message.author, "cel-daily",
                               DayMinutes + 2 - (time % DayMinutes), TRUE),
                    AddReaction("NAVI")>>
    ELSE IF message.author # EPIC_RPG_ID THEN <<>>
    ELSE IF message.kind = "cel_multiply"
    THEN LET user == message.history_user
             user_settings == get_user(table, user)
         IN  IF user = "none"
             THEN Warn("Couldn't find a command for the cel multiply message.")
             ELSE IF ~user_settings.exists \/ ~user_settings.bot_enabled THEN <<>>
             ELSE <<InsertCall(user, "cel-multiply", TwelveHours - message.elapsed, TRUE),
                    AddReaction("NAVI")>>
    ELSE IF message.kind = "cel_multiply_reject" /\ message.mention # "none"
    THEN LET user_settings == get_user(table, message.mention)
         IN  IF ~user_settings.exists \/ ~user_settings.bot_enabled THEN <<>>
             ELSE <<InsertCall(message.mention, "cel-multiply", message.timestring, TRUE),
                    AddReaction("NAVI")>>
    ELSE IF message.kind = "events_normal"
    THEN LET user == message.history_user
             user_settings == get_user(table, user)
         IN  IF user = "none"
             THEN Warn("Couldn't find a command for the events message.")
             ELSE IF ~user_settings.exists \/ ~user_settings.bot_enabled THEN <<>>
             ELSE EventsLoop(EventCooldowns(message, user_settings), message, user, rows,
                             <<>>, FALSE)
    ELSE <<>>

\* FunCog.on_message: the reply to the phrase of a human author, and two of the
\* reactions to phrases of the game bot
FunCog(message, table) ==
    IF message.kind \notin EmbedKinds /\ ~AuthorIsBot(message.author) /\ message.kind = "navi_lit"
    THEN <<Reply("https://tenor.com/view/betty-white-dab-mood-gif-5044603")>>
    ELSE IF message.author # EPIC_RPG_ID THEN <<>>
    ELSE IF message.kind = "fun_jail"
    THEN LET interaction == get_interaction_user(message)
             user_command_message ==
                 IF message.name = "none" THEN "none"
                 ELSE get_message_from_channel_history(message, message.name)
             user == IF interaction # "none" THEN interaction ELSE user_command_message
             user_settings == get_user(table, user)
         IN  IF interaction = "none" /\ (message.name = "none" \/ user_command_message = "none")
             THEN Warn("User not found in epic guard message for the fun reaction.")
             ELSE IF ~user_settings.exists THEN <<>>
             ELSE IF ~user_settings.bot_enabled \/ ~user_settings.reactions_enabled THEN <<>>
             ELSE <<AddReaction("PEEPO_JAIL")>>
    ELSE IF message.kind = "fun_lost_pet"
    THEN LET user == IF get_interaction_user(message) # "none" THEN get_interaction_user(message)
                     ELSE get_message_from_channel_history(message, "none")
             user_settings == get_user(table, user)
         IN  IF user = "none" THEN Warn("Couldn't find a user for the lost pet reaction.")
             ELSE IF ~user_settings.exists THEN <<>>
             ELSE IF ~user_settings.bot_enabled \/ ~user_settings.reactions_enabled THEN <<>>
             ELSE <<AddReaction("PANDA_SAD")>>
    ELSE <<>>

\* the heal warning of the handler: the text and where the player is named
HealWarning(user_settings) ==
    IF user_settings.dnd_mode_enabled THEN Send("warning_name", user_settings.user_id)
    ELSE IF user_settings.ping_after_message THEN Send("warning_mention_last", user_settings.user_id)
    ELSE Send("warning_mention_first", user_settings.user_id)

\* health_lost > (health_remaining - (health_lost / 10))
SoloHealNeeded(health_lost, health_remaining) ==
    10 * health_lost > 10 * health_remaining - health_lost

\* HelperHealCog.on_message: hunt together, and hunt solo / adventure, where the check of
\* the command message sits inside the branch of a matching name
HelperHealCog(message, table) ==
    IF message.author # EPIC_RPG_ID \/ message.kind \in EmbedKinds THEN <<>>
    ELSE IF message.kind = "hunt_together"
    THEN LET interaction == get_interaction_user(message)
             user == IF interaction # "none" THEN interaction
                     ELSE get_message_from_channel_history(message, message.name)
             user_settings == get_user(table, user)
         IN  IF user = "none" THEN Warn("User not found for hunt together heal warning message.")
             ELSE IF ~user_settings.exists THEN <<>>
             ELSE IF ~user_settings.bot_enabled \/ ~user_settings.heal_warning_enabled THEN <<>>
             ELSE IF HealNeeded(message.health[1], message.health[2])
             THEN <<HealWarning(user_settings)>>
             ELSE <<>>
    ELSE IF message.kind = "hunt_solo"
    THEN LET interaction == get_interaction_user(message)
             user_command_message == get_message_from_channel_history(message, message.name)
             user == IF interaction # "none" THEN interaction
                     ELSE IF message.name # "none" THEN user_command_message
                     ELSE "none"
             user_settings == get_user(table, user)
         IN  IF interaction = "none" /\ message.name # "none" /\ user_command_message = "none"
             THEN Warn("User not found in hunt/adventure message for heal warning.")
             ELSE IF user = "none" THEN <<Raise("AttributeError")>>
             ELSE IF ~user_settings.exists THEN <<>>
             ELSE IF ~user_settings.bot_enabled \/ ~user_settings.heal_warning_enabled THEN <<>>
             ELSE IF SoloHealNeeded(message.health[1], message.health[2])
             THEN <<HealWarning(user_settings)>>
             ELSE <<>>
    ELSE <<>>

\* the names of the cogs with a listener
CogNames == {"arena", "events", "farm", "fun", "helper_heal", "horse", "lottery"}

\* the listeners of the bot called with a message, each with the state it reads
Listeners(message, table, rows, time) ==
    [cog \in CogNames |->
        CASE cog = "arena" -> ArenaCog(message, table, rows)
          [] cog = "events" -> EventsCog(message, table, rows, time)
          [] cog = "farm" -> FarmCog(message, table, rows)
          [] cog = "fun" -> FunCog(message, table)
          [] cog = "helper_heal" -> HelperHealCog(message, table)
          [] cog = "horse" -> HorseCog(message, table, rows)
          [] cog = "lottery" -> LotteryCog(message, table, rows, time)]

\* the cogs that listen to on_message_edit; HorseCog and EventsCog have no such listener
EditCogs == {"arena", "farm", "fun", "helper_heal", "lottery"}

\* for row in message_after.components: for component in row.children:
\*     if component.disabled: return
AnyDisabled(components) == \E i \in 1..Len(components) : components[i]

\* on_message_edit of every cog: the handlers of the edited message
EditListeners(message, components, table, rows, time) ==
    [cog \in CogNames |->
        IF cog \in EditCogs /\ ~AnyDisabled(components)
        THEN Listeners(message, table, rows, time)[cog]
        ELSE <<>>]

\* the reminder message a listener stores with an activity
AlertMessage(activity) == <<"alert message", activity>>

RECURSIVE ApplyInserts(_, _, _)
\* the insertions among the calls, made in their order
ApplyInserts(db, time, calls) ==
    IF calls = <<>> THEN db
    ELSE LET c == Head(calls)
         IN  ApplyInserts(IF c.op = "insert_user_reminder"
                          THEN insert_user_reminder(db, time, c.user, c.arg, c.time_left, "ch1",
                                                    AlertMessage(c.arg), c.overwrite_message)
                          ELSE db,
                          time, Tail(calls))

RECURSIVE ApplyUpdates(_, _)
\* the settings writes among the calls
ApplyUpdates(table, calls) ==
    IF calls = <<>> THEN table
    ELSE LET c == Head(calls)
         IN  ApplyUpdates(IF c.op = "update" /\ c.user \in DOMAIN table
                          THEN [table EXCEPT ![c.user].last_farm_seed = c.arg]
                          ELSE table,
                          Tail(calls))

RECURSIVE ApplyLogs(_, _, _)
\* the calls of log_error among the calls
ApplyLogs(es, time, calls) ==
    IF calls = <<>> THEN es
    ELSE LET c == Head(calls)
         IN  ApplyLogs(IF c.op = "log_error" THEN log_error(es, time, c.arg, "bot", FALSE) ELSE es,
                       time, Tail(calls))

\* the calls of all cogs, cog after cog
AllCalls(calls) ==
    calls[Cogs[1]] \o calls[Cogs[2]] \o calls[Cogs[3]] \o calls[Cogs[4]] \o calls[Cogs[5]]
        \o calls[Cogs[6]] \o calls[Cogs[7]]

\* ---------------------------------------------------------------- the calendar
\* the lengths of the months and the instants the daily quest command is seen at
MonthLengths == {28, 31}

Datetime(month, day, hour, minute, second) ==
    [month |-> month, day |-> day, hour |-> hour, minute |-> minute, second |-> second]

Instants ==
    {Datetime(1, day, hour, minute, second) :
        day \in {1, 27, 28, 30, 31}, hour \in {0, 23}, minute \in {0, 2, 59},
        second \in {0, 1, 59}}

\* the seconds from the start of the first month to a datetime: what the difference of
\* two datetimes and the sum of a datetime and a timedelta are computed on
Seconds(dt, month_days) ==
    ((((dt.month - 1) * month_days + dt.day - 1) * 24 + dt.hour) * 60 + dt.minute) * 60
        + dt.second

\* datetime.replace(day=..., hour=..., minute=..., microsecond=0): the second is kept;
\* a day past the end of the month raises ValueError
replace(dt, day, hour, minute, month_days) ==
    IF day > month_days THEN [error |-> TRUE, value |-> dt]
    ELSE [error |-> FALSE, value |-> [dt EXCEPT !.day = day, !.hour = hour, !.minute = minute]]

Calendar(month_days, utcnow, user, outcome) ==
    [month_days |-> month_days, utcnow |-> utcnow, user |-> user, outcome |-> outcome]

CalendarIdle == Calendar(31, Datetime(1, 1, 0, 0, 0), "none", "pending")

\* EventsCog.on_message, the text command 'rpg cel ... dailyquest' of a player
CelDailyQuest(user) ==
    LET current_time == calendar.utcnow
        midnight_tomorrow == replace(calendar.utcnow, current_time.day + 1, 0, 2,
                                     calendar.month_days)
        time_to_midnight == Seconds(midnight_tomorrow.value, calendar.month_days)
                                - Seconds(current_time, calendar.month_days)
        db == insert_user_reminder(DB(store, scheduled_for_tasks, scheduled_for_deletion),
                                   now, user, "cel-daily", time_to_midnight, "ch1",
                                   AlertMessage("cel-daily"), FALSE)
        seen(outcome) == calendar' = [calendar EXCEPT !.user = user, !.outcome = outcome]
    IN  /\ calendar.outcome = "pending"
        /\ IF ~users[user].exists \/ ~users[user].bot_enabled
           THEN seen("ignored") /\ UNCHANGED <<store, scheduled_for_tasks>>
           ELSE IF midnight_tomorrow.error
           THEN seen("ValueError") /\ UNCHANGED <<store, scheduled_for_tasks>>
           ELSE /\ seen("reaction")
                /\ store' = db.store
                /\ scheduled_for_tasks' = db.tasks
        /\ UNCHANGED <<now, users, clans, scheduled_for_deletion, running_tasks, timers,
                       started, offView, donorVars, ops, histVars, last, sent, loopVars,
                       editVars, healVars, modalVars, errorVars, heard, listening>>

\* no message was seen
NotHeard ==
    [message |-> NoMessage, edited |-> FALSE, components |-> <<>>,
     calls |-> [cog \in CogNames |-> <<>>]]

\* no lottery listener is suspended
NotListening == [state |-> "none", user_settings |-> NoUser, time_left |-> 0]

ListenIdle ==
    /\ heard = NotHeard
    /\ calendar = CalendarIdle
    /\ listening = [u \in Users |-> NotListening]

\* the platform hands a message to the listeners: what they call, and what the calls do
\* to the reminders, the settings and the error log
Dispatch(message, edited, components, calls) ==
    LET db == ApplyInserts(DB(store, scheduled_for_tasks, scheduled_for_deletion), now,
                           AllCalls(calls))
        es == ApplyLogs(ErrorState(errorRows, logfile, raised), now, AllCalls(calls))
    IN  /\ heard = NotHeard
        /\ heard' = [message |-> message, edited |-> edited, components |-> components,
                     calls |-> calls]
        /\ store' = db.store
        /\ scheduled_for_tasks' = db.tasks
        /\ users' = ApplyUpdates(users, AllCalls(calls))
        /\ errorRows' = es.rows
        /\ logfile' = es.log
        /\ raised' = es.raised
        /\ UNCHANGED <<now, clans, scheduled_for_deletion, running_tasks, timers, started,
                       offView, donorVars, ops, histVars, last, sent, loopVars, editVars,
                       healVars, modalVars, purgeRunning, calendar, listening>>

\* a new message arrives: on_message of every cog
OnMessage(message) ==
    Dispatch(message, FALSE, <<>>, Listeners(message, users, store, now))

\* a message is edited: on_message_edit of the cogs that have it
OnMessageEdit(message, components) ==
    Dispatch(message, TRUE, components, EditListeners(message, components, users, store, now))

\* ---------------------------------------------------------------- last time travel
\* numbers wider than a machine word of the checker are held as <<high, low>> with the
\* value high * Limb + low; a message id as <<high, low, rest>>, the upper 21 bits, the
\* next 21 bits and the lower 22 bits of its 64 bits
Limb == 2097152

\* 1_420_070_400_000
DiscordEpoch == <<677142, 700416>>

RECURSIVE Binary(_, _)
\* the binary digits of n in a field of the given width, highest first
Binary(n, width) ==
    IF width = 0 THEN <<>> ELSE Append(Binary(n \div 2, width - 1), n % 2)

RECURSIVE BitsToInt(_)
\* int(digits, 2)
BitsToInt(bits) ==
    IF bits = <<>> THEN 0
    ELSE 2 * BitsToInt(SubSeq(bits, 1, Len(bits) - 1)) + bits[Len(bits)]

\* f'{message_id:064b}' for 0 <= message_id < 2^64
Format064b(message_id) ==
    Binary(message_id[1], 21) \o Binary(message_id[2], 21) \o Binary(message_id[3], 22)

\* int(timestamp_binary, 2) for the 42 digits of the timestamp
TimestampDecimal(timestamp_binary) ==
    <<BitsToInt(SubSeq(timestamp_binary, 1, 21)), BitsToInt(SubSeq(timestamp_binary, 22, 42))>>

WideAdd(a, b) == <<a[1] + b[1] + ((a[2] + b[2]) \div Limb), (a[2] + b[2]) % Limb>>

\* the whole part of a / d, for d up to 1000
WideDiv(a, d) == <<a[1] \div d, ((a[1] % d) * Limb + a[2]) \div d>>

\* the decoder without the addition of the epoch
SnowflakeMillis_no_epoch(message_id) ==
    TimestampDecimal(SubSeq(Format064b(message_id), 1, 42))

\* timestamp_decimal + 1_420_070_400_000: the instant of a message id, in milliseconds
SnowflakeMillis(message_id) ==
    WideAdd(TimestampDecimal(SubSeq(Format064b(message_id), 1, 42)), DiscordEpoch)

\* tt_time: datetime.utcfromtimestamp(timestamp).replace(microsecond=0), in seconds
SnowflakeTime(message_id) == WideDiv(SnowflakeMillis(message_id), 1000)

\* the message ids a player enters
MessageIds ==
    {<<high, low, rest>> : high \in {0, 677142}, low \in {999, 700416},
                           rest \in {0, 2 * Limb - 1}}
        \cup {<<0, 0, 0>>, <<Limb - 1, Limb - 1, 2 * Limb - 1>>}

\* what the modal's field holds: an id, a link that ends in an id, a link the pattern
\* does not match, or a text that is no number
ModalInputs ==
    [kind : {"id", "link"}, id : MessageIds]
    \cup [kind : {"bad_link", "text"}, id : {<<0, 0, 0>>}]

\* SetLastTTModal.callback
SetLastTT(u, input) ==
    /\ views[u].kind = "user"
    /\ IF input.kind \in {"bad_link", "text"}
       THEN /\ modalReply' = [user |-> u, input |-> input, out |-> "msg_error"]
            /\ UNCHANGED <<users, views, writes>>
       ELSE LET user_settings == views[u].user_settings
                done == update(Statement(users), user_settings,
                               [last_tt |-> SnowflakeTime(input.id)])
            IN  /\ users' = done.table
                /\ writes' = done.writes
                /\ views' = [views EXCEPT ![u].user_settings =
                                IF done.error = "none" THEN refresh(done.table, user_settings)
                                ELSE @]
                /\ modalReply' = [user |-> u, input |-> input, out |-> "updated"]
    /\ UNCHANGED <<now, clans, schedVars, offView, donorOps, ops, histVars, last, sent,
                   loopVars, listenVars, editVars, healVars, errorVars, clanViews, clanReply,
                   clanWrites>>

\* ---------------------------------------------------------------- clan settings
\* the views that are opened in a behaviour, and the writes to the clans in it
ViewIds == {"v1", "v2"}

MaxClanWrites == 2

NoChannel == "none"

\* a Clan object: the name of the clan and the values of its row when it was read
ClanObject(clan_name, record) == [clan_name |-> clan_name, record |-> record]

NoClanView == [kind |-> "none", user |-> "none", clan_settings |-> ClanObject("none", <<>>),
               modal |-> FALSE]

ClanReply(op, text, out) == [op |-> op, text |-> text, out |-> out]

\* no clan or ready settings view is open
ClanIdle ==
    /\ clanViews = [v \in ViewIds |-> NoClanView]
    /\ clanReply = ClanReply("none", <<>>, "none")
    /\ clanWrites = 0

\* clans.get_clan_by_user_id(user_id): the clan the user is a member of
HasClan(table, user_id) == \E c \in DOMAIN table : user_id \in table[c].member_ids

get_clan_by_user_id(table, user_id) ==
    LET c == CHOOSE c \in DOMAIN table : user_id \in table[c].member_ids
    IN  ClanObject(c, table[c])

\* Clan.update(**kwargs): one statement on the row of the clan
clan_update(table, clan_settings, kwargs) ==
    [table EXCEPT ![clan_settings.clan_name] =
        [f \in DOMAIN @ |-> IF f \in DOMAIN kwargs THEN kwargs[f] ELSE @[f]]]

\* Clan.refresh(): the object takes the stored values of its row
clan_refresh(table, clan_settings) ==
    ClanObject(clan_settings.clan_name, table[clan_settings.clan_name])

\* the digits of a modal's text field and the texts of the model
DigitValue == [d \in {"0", "1", "5", "6", "9"} |->
                  CASE d = "0" -> 0 [] d = "1" -> 1 [] d = "5" -> 5 [] d = "6" -> 6
                    [] d = "9" -> 9]

ThresholdTexts ==
    {<<>>, <<"x">>, <<"1", "x">>, <<"-">>, <<"-", "1">>, <<"0">>, <<"1">>, <<"9", "5">>,
     <<"9", "6">>}

RECURSIVE Decimal(_)
\* the value of a sequence of decimal digits
Decimal(digits) ==
    IF digits = <<>> THEN 0
    ELSE 10 * Decimal(SubSeq(digits, 1, Len(digits) - 1)) + DigitValue[digits[Len(digits)]]

\* int(text): an optional sign and at least one digit, ValueError otherwise
int(text) ==
    LET signed == text # <<>> /\ Head(text) = "-"
        digits == IF signed THEN Tail(text) ELSE text
    IN  IF digits = <<>> \/ \E i \in 1 .. Len(digits) : digits[i] \notin DOMAIN DigitValue
        THEN [error |-> "ValueError", value |-> 0]
        ELSE [error |-> "none", value |-> IF signed THEN 0 - Decimal(digits) ELSE Decimal(digits)]

\* str.replace(old, new) on the wordings of a clan reminder
str_replace(message, old, new) ==
    IF message = "guild upgrade" /\ old = "upgrade" /\ new = "raid" THEN "guild raid"
    ELSE IF message = "guild raid" /\ old = "raid" /\ new = "upgrade" THEN "guild upgrade"
    ELSE message

\* Reminder.update(message=...): the row is changed in place
reminder_update(rows, reminder, message) ==
    (rows \ {reminder}) \cup {[reminder EXCEPT !.message = message]}

InThresholdRange_upto_96(new_threshold) == 1 <= new_threshold /\ new_threshold <= 96

\* 1 <= new_threshold <= 95
InThresholdRange(new_threshold) == 1 <= new_threshold /\ new_threshold <= 95

\* the reminder of the clan after the threshold changed: its message names the raid when
\* the new threshold is at most the stealth of the Clan object, the upgrade otherwise
Reworded(rows, clan_settings, new_threshold) ==
    LET found == get_clan_reminder(rows, clan_settings.clan_name)
        reminder == CHOOSE r \in found : TRUE
    IN  IF found = {} THEN rows
        ELSE IF new_threshold <= clan_settings.record.stealth_current
        THEN reminder_update(rows, reminder, str_replace(reminder.message, "upgrade", "raid"))
        ELSE reminder_update(rows, reminder, str_replace(reminder.message, "raid", "upgrade"))

\* the variables no clan or ready settings view changes
clanRest == <<now, users, ops, scheduled_for_tasks, scheduled_for_deletion, running_tasks, timers,
              started, offView, donorVars, histVars, last, sent, loopVars, editVars, healVars,
              modalReply, errorVars, listenVars>>

\* command_settings_clan: the clan of the author, then the view with the Clan object
OpenClanSettings(v, u) ==
    /\ clanViews[v].kind = "none"
    /\ HasClan(clans, u)
    /\ clanViews' = [clanViews EXCEPT ![v] =
                        [kind |-> "clan", user |-> u,
                         clan_settings |-> get_clan_by_user_id(clans, u), modal |-> FALSE]]
    /\ clanReply' = ClanReply("open_clan", <<>>, "view")
    /\ UNCHANGED <<clans, store, clanWrites, clanRest>>

\* the ready settings view of a clan member: SettingsReadyView with the member's Clan object
OpenReadySettings(v, u) ==
    /\ clanViews[v].kind = "none"
    /\ HasClan(clans, u)
    /\ clanViews' = [clanViews EXCEPT ![v] =
                        [kind |-> "ready", user |-> u,
                         clan_settings |-> get_clan_by_user_id(clans, u), modal |-> FALSE]]
    /\ clanReply' = ClanReply("open_ready", <<>>, "view")
    /\ UNCHANGED <<clans, store, clanWrites, clanRest>>

\* what a callback does to the row of its clan and to its view
ClanWrite(v, kwargs) ==
    LET table == clan_update(clans, clanViews[v].clan_settings, kwargs)
    IN  /\ clanWrites < MaxClanWrites
        /\ clans' = table
        /\ clanViews' = [clanViews EXCEPT ![v].clan_settings = clan_refresh(table, @)]
        /\ clanWrites' = clanWrites + 1

\* SettingsClanView.interaction_check and ManageClanSettingsSelect.callback; value is the
\* answer to the confirmation of 'set_channel' and 'reset_channel', channel the channel of
\* the interaction
ManageClanSettingsSelect(v, interaction_user, select_value, value, channel) ==
    LET clan == clanViews[v].clan_settings.record
        said(out) == clanReply' = ClanReply(select_value, <<>>, out)
        nothing == UNCHANGED <<clans, clanViews, clanWrites>>
    IN  /\ clanViews[v].kind = "clan"
        /\ IF interaction_user # clanViews[v].user
           THEN said("MSG_INTERACTION_ERROR") /\ nothing
           ELSE IF interaction_user # clan.leader_id
           THEN said("not the guild owner") /\ nothing
           ELSE CASE select_value = "toggle_reminder" ->
                       IF ~clan.alert_enabled /\ clan.channel_id = NoChannel
                       THEN said("set a guild channel first") /\ nothing
                       ELSE /\ ClanWrite(v, [alert_enabled |-> ~clan.alert_enabled])
                            /\ said("updated")
                  [] select_value = "toggle_quest" ->
                       /\ ClanWrite(v, [upgrade_quests_enabled |-> ~clan.upgrade_quests_enabled])
                       /\ said("updated")
                  [] select_value = "set_threshold" ->
                       /\ clanViews' = [clanViews EXCEPT ![v].modal = TRUE]
                       /\ said("modal")
                       /\ UNCHANGED <<clans, clanWrites>>
                  [] select_value = "set_channel" ->
                       IF value = "confirm"
                       THEN ClanWrite(v, [channel_id |-> channel]) /\ said("Channel updated.")
                       ELSE said("Aborted") /\ nothing
                  [] select_value = "reset_channel" ->
                       IF clan.channel_id = NoChannel
                       THEN said("no guild channel set") /\ nothing
                       ELSE IF value = "confirm"
                       THEN /\ ClanWrite(v, [channel_id |-> NoChannel, alert_enabled |-> FALSE])
                            /\ said("Channel reset.")
                       ELSE said("Aborted") /\ nothing
        /\ UNCHANGED <<store, clanRest>>

ClanSelectValues ==
    {"toggle_reminder", "toggle_quest", "set_threshold", "set_channel", "reset_channel"}

\* a selection and, where the selection asks for a confirmation, the answer to it
ClanSelections ==
    {<<select_value, value>> \in ClanSelectValues \X DialogValues :
        select_value \in {"set_channel", "reset_channel"} \/ value = "confirm"}

\* SetStealthThresholdModal.callback on the text the leader submitted
SetStealthThresholdModal(v, text) ==
    LET clan_settings == clanViews[v].clan_settings
        new_threshold == int(text)
        said(out) == clanReply' = ClanReply("modal", text, out)
        table == clan_update(clans, clan_settings, [stealth_threshold |-> new_threshold.value])
    IN  /\ clanViews[v].kind = "clan"
        /\ clanViews[v].modal
        /\ IF new_threshold.error # "none"
           THEN /\ said("That is not a valid number.")
                /\ clanViews' = [clanViews EXCEPT ![v].modal = FALSE]
                /\ UNCHANGED <<clans, store, clanWrites>>
           ELSE IF ~InThresholdRange(new_threshold.value)
           THEN /\ said("between 1 and 95")
                /\ clanViews' = [clanViews EXCEPT ![v].modal = FALSE]
                /\ UNCHANGED <<clans, store, clanWrites>>
           ELSE /\ clanWrites < MaxClanWrites
                /\ clans' = table
                /\ clanViews' = [clanViews EXCEPT ![v].clan_settings = clan_refresh(table, @),
                                                  ![v].modal = FALSE]
                /\ store' = Reworded(store, clan_refresh(table, clan_settings),
                                     new_threshold.value)
                /\ clanWrites' = clanWrites + 1
                /\ said("updated")
        /\ UNCHANGED clanRest

\* SettingsReadyView.interaction_check and ManageReadySettingsSelect.callback with the
\* value 'toggle_alert'
ManageReadySettingsSelect(v, interaction_user) ==
    LET clan == clanViews[v].clan_settings.record
        said(out) == clanReply' = ClanReply("toggle_alert", <<>>, out)
    IN  /\ clanViews[v].kind = "ready"
        /\ IF interaction_user # clanViews[v].user
           THEN said("MSG_INTERACTION_ERROR") /\ UNCHANGED <<clans, clanViews, clanWrites>>
           ELSE /\ ClanWrite(v, [alert_visible |-> ~clan.alert_visible])
                /\ said("updated")
        /\ UNCHANGED <<store, clanRest>>

\* the heal helper has handled no message
HealIdle == heal = [user |-> "none", kind |-> "none", lost |-> 0, remaining |-> 0, out |-> "none"]

\* no modal was submitted
ModalIdle ==
    /\ modalReply = [user |-> "none", input |-> [kind |-> "none", id |-> <<0, 0, 0>>],
                     out |-> "none"]
    /\ ClanIdle

\* an empty errors table and an empty log
ErrorsIdle ==
    /\ errorRows = <<>>
    /\ logfile = <<>>
    /\ raised = "none"
    /\ purgeRunning = TRUE

\* the 55 second loop is not watched
LoopIdle ==
    /\ sec = 0
    /\ loopNext = 0
    /\ bodyRuns = 0


\* ---------------------------------------------------------------- Init
Init ==
    /\ now = 0
    /\ users = [u \in Users |-> IF u = "u1" THEN insert_user([v \in Users |-> NoUser], u, TRUE)[u]
                                ELSE NoUser]
    /\ clans = [c \in Clans |-> [alert_enabled |-> TRUE, channel_id |-> "ch1",
                                 stealth_current |-> 2, stealth_threshold |-> 2,
                                 quest_user_id |-> "none", raids |-> "none", member_ids |-> Users]]
    /\ store = {}
    /\ scheduled_for_tasks = <<>>
    /\ scheduled_for_deletion = <<>>
    /\ running_tasks = <<>>
    /\ timers = <<>>
    /\ started = <<>>
    /\ ListenIdle
    /\ offView = [u \in Users |-> "none"]
    /\ views = [u \in Users |-> NoView]
    /\ writes = 0
    /\ ops = 0
    /\ donorOps = 0
    /\ deletedEarly = {}
    /\ deletedDrained = {}
    /\ last = Last("init", "none", "none", FALSE)
    /\ sent = {}
    /\ LoopIdle
    /\ EditorIdle
    /\ HealIdle
    /\ ModalIdle
    /\ ErrorsIdle

\* ---------------------------------------------------------------- actions
\* the clock: one unit is a minute.  The drain loop runs twice per second and a timer's
\* sleep ends at its due instant, so both have run before the next minute begins.
Clock(limit) ==
    /\ now < limit
    /\ scheduled_for_tasks = <<>>
    /\ scheduled_for_deletion = <<>>
    /\ \A id \in DOMAIN timers : id \in DOMAIN started /\ now < timers[id][1].end_time
    /\ now' = now + 1
    /\ UNCHANGED <<last, users, clans, schedVars, offView, donorVars, auxVars, ops, histVars>>

Tick == Clock(MaxTime)

\* the rows an operation removed through Reminder.delete() before their due instant
Early(rs, time) == {r \in rs : time < r.end_time}

\* a variant of command_on that registers new users and never enables an existing one
command_on_insert_only(table, u, default_enabled) ==
    IF table[u].exists THEN table ELSE insert_user(table, u, default_enabled)

\* command_on: the effect on table "users"
command_on(table, u, default_enabled) ==
    IF table[u].exists
    THEN IF table[u].bot_enabled THEN table
         ELSE [table EXCEPT ![u].bot_enabled = TRUE]
    ELSE LET inserted == insert_user(table, u, default_enabled)
         IN  IF inserted[u].bot_enabled THEN inserted
             ELSE [inserted EXCEPT ![u].bot_enabled = TRUE]

\* command_on
CommandOn(u, default_enabled) ==
    /\ ops < MaxOps
    /\ ops' = ops + 1
    /\ users' = command_on(users, u, default_enabled)
    /\ last' = Last(IF users[u].exists /\ users[u].bot_enabled THEN "on_already" ELSE "on", u, "none",
                    users[u].exists)
    /\ UNCHANGED <<now, clans, schedVars, offView, donorVars, auxVars, histVars>>

\* command_off up to view.wait()
OffStart(u) ==
    /\ ops < MaxOps
    /\ ops' = ops + 1
    /\ users[u].exists
    /\ users[u].bot_enabled
    /\ offView[u] = "none"
    /\ offView' = [offView EXCEPT ![u] = "waiting"]
    /\ last' = Last("off_start", u, "none", FALSE)
    /\ UNCHANGED <<now, users, clans, schedVars, donorVars, auxVars, histVars>>

\* a variant of command_off that disables the bot and deletes nothing
command_off_no_delete(db, rows_active, value) == db

\* a variant of command_off that takes any click on the dialog as the confirmation
command_off_any_click(db, rows_active, value) ==
    IF value = "timeout" THEN db ELSE delete_all(db, rows_active)

\* command_off after view.wait(): the effect of the dialog's outcome on the store layer
command_off(db, rows_active, value) ==
    IF value = "timeout" THEN db
    ELSE IF value = "confirm" THEN delete_all(db, rows_active)
    ELSE db

\* command_off after view.wait(): the effect of the dialog's outcome on bot_enabled
command_off_enabled(enabled, value) ==
    IF value = "timeout" THEN enabled
    ELSE IF value = "confirm" THEN FALSE
    ELSE enabled

\* command_off from view.wait() on; value is 'confirm', 'cancel' or None (timeout)
OffResolve(u, value) ==
    /\ offView[u] = "waiting"
    /\ LET active == get_active_user_reminders(store, u, now)
           db == command_off(DB(store, scheduled_for_tasks, scheduled_for_deletion), active, value)
       IN  /\ users' = [users EXCEPT ![u].bot_enabled = command_off_enabled(@, value)]
           /\ store' = db.store
           /\ scheduled_for_tasks' = db.tasks
           /\ scheduled_for_deletion' = db.deletion
           /\ deletedEarly' = deletedEarly \cup Early(store \ db.store, now)
    /\ offView' = [offView EXCEPT ![u] = "none"]
    /\ last' = Last(value, u, "none", FALSE)
    /\ UNCHANGED <<now, clans, running_tasks, timers, started, donorVars, auxVars, ops, deletedDrained>>

\* LotteryCog.on_message, "lottery ticket successfully bought", up to the call of
\* insert_user_reminder: the settings are loaded, the gate is passed and the time left
\* is computed; the handler keeps the User object while it is suspended
LotteryBuyLoad(u, time_left) ==
    LET user_settings == get_user(users, u)
    IN  /\ ops < MaxOps
        /\ listening[u].state = "none"
        /\ user_settings.exists
        /\ IF ~user_settings.bot_enabled \/ ~user_settings.alert_lottery_enabled
              \/ time_left < 0
           THEN /\ last' = Last("lottery_ignored", u, "lottery", FALSE)
                /\ UNCHANGED listening
           ELSE /\ last' = Last("lottery_load", u, "lottery", FALSE)
                /\ listening' = [listening EXCEPT ![u] =
                                    [state |-> "suspended", user_settings |-> user_settings,
                                     time_left |-> time_left]]
        /\ ops' = ops + 1
        /\ UNCHANGED <<now, users, clans, schedVars, offView, donorVars, histVars, sent,
                       loopVars, editVars, healVars, modalVars, errorVars, heard, calendar>>

\* the same handler from insert_user_reminder on: the reminder is inserted for the user
\* whose settings the handler holds
LotteryBuyInsert(u) ==
    /\ listening[u].state = "suspended"
    /\ LET db == insert_user_reminder(DB(store, scheduled_for_tasks, scheduled_for_deletion),
                                      now, u, "lottery", listening[u].time_left, "ch1",
                                      "lottery amount: [1-10]", TRUE)
       IN  /\ store' = db.store
           /\ scheduled_for_tasks' = db.tasks
           /\ deletedEarly' = deletedEarly \ db.store
           /\ deletedDrained' = deletedDrained \ db.store
    /\ listening' = [listening EXCEPT ![u] = NotListening]
    /\ last' = Last("lottery", u, "lottery", get_user_reminder(store, u, "lottery") # {})
    /\ UNCHANGED <<now, users, clans, scheduled_for_deletion, running_tasks, timers, started,
                   offView, donorVars, ops, sent, loopVars, editVars, healVars, modalVars,
                   errorVars, heard, calendar>>

\* ArenaCog.on_message: a cooldown message of an enabled user schedules a reminder
ArenaOnMessage(u, activity, channel_id, time_left, message) ==
    /\ ops < MaxOps
    /\ users[u].exists
    /\ users[u].bot_enabled
    /\ time_left >= 0
    /\ LET db == insert_user_reminder(DB(store, scheduled_for_tasks, scheduled_for_deletion),
                                      now, u, activity, time_left, channel_id, message, TRUE)
       IN  /\ store' = db.store
           /\ scheduled_for_tasks' = db.tasks
           /\ deletedEarly' = deletedEarly \ db.store
           /\ deletedDrained' = deletedDrained \ db.store
    /\ ops' = ops + 1
    /\ last' = Last("insert", u, activity, get_user_reminder(store, u, activity) # {})
    /\ UNCHANGED <<now, users, clans, scheduled_for_deletion, running_tasks, timers, started, offView,
                   donorVars, auxVars>>

\* EventsCog.on_message, "normal events": an existing reminder gets a new end time
EventsOnMessage(u, activity, channel_id, time_left, message) ==
    /\ ops < MaxOps
    /\ users[u].exists
    /\ users[u].bot_enabled
    /\ get_user_reminder(store, u, activity) # {}
    /\ time_left > 0
    /\ LET db == insert_user_reminder(DB(store, scheduled_for_tasks, scheduled_for_deletion),
                                      now, u, activity, time_left, channel_id, message, FALSE)
       IN  /\ store' = db.store
           /\ scheduled_for_tasks' = db.tasks
           /\ deletedEarly' = deletedEarly \ db.store
           /\ deletedDrained' = deletedDrained \ db.store
    /\ ops' = ops + 1
    /\ last' = Last("update", u, activity, TRUE)
    /\ UNCHANGED <<now, users, clans, scheduled_for_deletion, running_tasks, timers, started, offView,
                   donorVars, auxVars>>

\* TasksCog.schedule_tasks: one drain tick.  The loop sleeps half a second between two
\* ticks, and a timer created by a tick takes its first step when the tick ends, so every
\* live timer has reached its sleep when the next tick begins.
ScheduleTasks ==
    /\ scheduled_for_tasks # <<>> \/ scheduled_for_deletion # <<>>
    /\ DOMAIN timers \subseteq DOMAIN started
    /\ LET s == DrainSched(Sched(running_tasks, timers, {}), scheduled_for_tasks, scheduled_for_deletion)
       IN  /\ running_tasks' = s.running
           /\ timers' = s.timers
           /\ started' = [i \in DOMAIN started \cap DOMAIN s.timers |-> started[i]]
    /\ scheduled_for_tasks' = <<>>
    /\ scheduled_for_deletion' = <<>>
    /\ deletedDrained' = deletedEarly
    /\ UNCHANGED <<last, now, users, clans, store, offView, donorVars, auxVars, ops, deletedEarly>>

\* the clock value of the configured weekday, hour and minute of the weekly reset
ClanResetTime == 0

\* minutes of the reminders the scheduler itself inserts
ResetTimeLeft == 1

QuestTimeLeft == 5

\* the wording of the quest follow-up reminder
QuestAlertMessage(clan) ==
    IF clan.stealth_current >= clan.stealth_threshold THEN "guild raid" ELSE "guild upgrade"

\* reminder_message.replace("{name}", ...): the bold name under DND, the mention otherwise
NameForm(user_settings) == IF user_settings.dnd_mode_enabled THEN "name" ELSE "mention"

\* what the body of a timer holds when it reaches its sleep: the clan object it read, the
\* quest holder it took from it, the wording of the follow-up reminder and the members it
\* will mention
Prelude(clan, quest_user_id, alert_message, message_mentions) ==
    [clan |-> clan, quest_user_id |-> quest_user_id, alert_message |-> alert_message,
     message_mentions |-> message_mentions]

\* TasksCog.background_task from its first step to its sleep.  The task of a timer that
\* the drain tick cancelled in the tick that created it never takes this step.
BackgroundTaskStart(id) ==
    /\ id \in DOMAIN timers \ DOMAIN started
    /\ LET first_reminder == timers[id][1]
           clan == clans[first_reminder.target]
           quest == first_reminder.rtype = "clan" /\ clan.quest_user_id # "none"
           read == IF first_reminder.rtype = "user"
                   THEN Prelude("none", "none", NameForm(get_user(users, first_reminder.target)),
                                {})
                   ELSE IF quest
                        THEN Prelude([clan EXCEPT !.quest_user_id = "none"], clan.quest_user_id,
                                     QuestAlertMessage(clan), {})
                        ELSE Prelude(clan, "none", "none", clan.member_ids)
       IN  /\ started' = [i \in DOMAIN started \cup {id} |-> IF i = id THEN read ELSE started[i]]
           /\ clans' = IF quest THEN [clans EXCEPT ![first_reminder.target].quest_user_id = "none"]
                       ELSE clans
    /\ UNCHANGED <<last, now, users, store, scheduled_for_tasks, scheduled_for_deletion,
                   running_tasks, timers, offView, donorVars, auxVars, ops, histVars>>

\* a message a timer of a clan reminder posts to the clan's channel
ClanMessage(kind, channel_id, clan_name, mentions, text, time) ==
    [kind |-> kind, channel_id |-> channel_id, target |-> clan_name, mentions |-> mentions,
     text |-> text, time |-> time]

\* the messages a timer of user reminders posts: the texts of all the reminders of its
\* list, with the player's name in the form the body chose
UserMessage(channel_id, user_id, form, reminders_list, time) ==
    [kind |-> "user_reminder", channel_id |-> channel_id, target |-> user_id,
     mentions |-> IF form = "mention" THEN {user_id} ELSE {}, text |-> form, time |-> time,
     reminders |-> SeqToSet(reminders_list)]

\* TasksCog.background_task from the end of its sleep: delivery
BackgroundTask(id) ==
    /\ id \in DOMAIN started
    /\ LET reminders_list == timers[id]
           first_reminder == reminders_list[1]
           read == started[id]
           quest == first_reminder.rtype = "clan" /\ read.quest_user_id # "none"
           db == insert_clan_reminder(DB(store, scheduled_for_tasks, scheduled_for_deletion),
                                      now, first_reminder.target, QuestTimeLeft,
                                      read.clan.channel_id, read.alert_message)
       IN  /\ now >= first_reminder.end_time
           /\ timers' = [i \in DOMAIN timers \ {id} |-> timers[i]]
           /\ started' = [i \in DOMAIN started \ {id} |-> started[i]]
           /\ IF quest
              THEN /\ sent' = sent \cup {ClanMessage("raid_quest", first_reminder.channel_id,
                                                     first_reminder.target, {read.quest_user_id},
                                                     "raid quest", now)}
                   /\ store' = db.store
                   /\ scheduled_for_tasks' = db.tasks
                   /\ deletedEarly' = deletedEarly \ db.store
                   /\ deletedDrained' = deletedDrained \ db.store
                   /\ UNCHANGED running_tasks
              ELSE /\ sent' = IF first_reminder.rtype = "clan"
                              THEN sent \cup {ClanMessage("clan_reminder", first_reminder.channel_id,
                                                          first_reminder.target,
                                                          read.message_mentions,
                                                          first_reminder.message, now)}
                              ELSE sent \cup {UserMessage(first_reminder.channel_id,
                                                          first_reminder.target,
                                                          read.alert_message, reminders_list,
                                                          now)}
                   /\ running_tasks' = [n \in DOMAIN running_tasks \ {TaskName(first_reminder)} |->
                                            running_tasks[n]]
                   /\ UNCHANGED <<store, scheduled_for_tasks, histVars>>
    /\ UNCHANGED <<last, now, users, clans, scheduled_for_deletion, offView, donorVars, loopVars,
                   calcVars, ops>>

\* what a sweep of delete_old_reminders has done so far
PurgeState(db, es) == [db |-> db, es |-> es]

\* old_reminders = list(old_user_reminders) + list(old_clan_reminders): the next one
NextOld(rs) ==
    LET group == IF \E r \in rs : r.rtype = "user" THEN {r \in rs : r.rtype = "user"} ELSE rs
    IN  CHOOSE x \in group : \A y \in group :
            \/ x.end_time < y.end_time
            \/ (x.end_time = y.end_time /\ ActivityRank(x.activity) <= ActivityRank(y.activity))

RECURSIVE PurgeAll(_, _, _, _, _)
\* for reminder in old_reminders: try reminder.delete() except log_error(...).  The
\* deletion of the reminders in delete_fails raises; the insert into the errors table
\* raises sqlite3.Error while the failure of a reminder in log_fails is logged, and that
\* exception leaves the loop
PurgeAll(ps, time, rs, delete_fails, log_fails) ==
    IF rs = {} \/ ps.es.raised # "none" THEN ps
    ELSE LET r == NextOld(rs)
         IN  PurgeAll(IF r \in delete_fails
                      THEN PurgeState(ps.db, log_error(ps.es, time, "string", "none",
                                                       r \in log_fails))
                      ELSE PurgeState(delete_reminder(ps.db, r), ps.es),
                      time, rs \ {r}, delete_fails, log_fails)

\* TasksCog.delete_old_reminders: one iteration of the stale-reminder purge.  An exception
\* that leaves the body ends the loop
PurgeSweep(delete_fails, log_fails) ==
    /\ purgeRunning
    /\ get_old_reminders(store, now) # {}
    /\ Len(errorRows) < MaxRows
    /\ Len(logfile) < MaxRows
    /\ LET ps == PurgeAll(PurgeState(DB(store, scheduled_for_tasks, scheduled_for_deletion),
                                     ErrorState(errorRows, logfile, "none")),
                          now, get_old_reminders(store, now), delete_fails, log_fails)
       IN  /\ store' = ps.db.store
           /\ scheduled_for_deletion' = ps.db.deletion
           /\ errorRows' = ps.es.rows
           /\ logfile' = ps.es.log
           /\ raised' = ps.es.raised
           /\ purgeRunning' = (ps.es.raised = "none")
    /\ UNCHANGED <<last, now, users, clans, scheduled_for_tasks, running_tasks, timers, started,
                   offView, donorVars, sent, loopVars, listenVars, editVars, healVars, modalVars,
                   ops,
                   histVars>>

\* the purge when every deletion succeeds
DeleteOldReminders == PurgeSweep({}, {})

\* the wording of the reminder the weekly reset inserts
ResetCommand(clan) == IF clan.stealth_threshold > 1 THEN "guild upgrade" ELSE "guild raid"

\* clans.get_weekly_report(clan): "none" is NoDataFound (no raid was tracked), "total"
\* a report without a best and a worst raid, "ranked" a report with both
WeeklyReports == {"none", "total", "ranked"}

\* the line of the report about the best (worst) raid
ReportLine(raids) == IF raids = "ranked" THEN "named" ELSE "placeholder"

\* what the loop of reset_clans has done so far
ResetState(db, table, posted, error) ==
    [db |-> db, table |-> table, sent |-> posted, error |-> error]

\* one pass of the loop body of reset_clans over a clan.  lost_channels and lost_users
\* are the clans whose channel, and whose best or worst raider, the platform no longer
\* resolves: the lookup returns None and the use of the result raises AttributeError
ResetClan(rs, time, c, lost_channels, lost_users) ==
    LET clan == [rs.table[c] EXCEPT !.stealth_current = 1]
        table == [rs.table EXCEPT ![c] = clan]
        db1 == delete_all(rs.db, get_clan_reminder(rs.db.store, c))
        db2 == insert_clan_reminder(db1, time, c, ResetTimeLeft, clan.channel_id,
                                    ResetCommand(clan))
    IN  IF ~clan.alert_enabled THEN ResetState(db1, table, rs.sent, rs.error)
        ELSE IF clan.raids = "none" THEN ResetState(db2, table, rs.sent, rs.error)
        ELSE IF (clan.raids = "ranked" /\ c \in lost_users) \/ c \in lost_channels
             THEN ResetState(db2, table, rs.sent, "AttributeError")
        ELSE ResetState(db2, table,
                        rs.sent \cup {[kind |-> "weekly_report", channel_id |-> clan.channel_id,
                                       target |-> c, best |-> ReportLine(clan.raids),
                                       worst |-> ReportLine(clan.raids)]},
                        rs.error)

\* clans.get_all_clans(): the clans in the order of the table
ClanOrder == <<"c1", "c2">>

get_all_clans(table) ==
    LET Stored(c) == c \in DOMAIN table
    IN  SelectSeq(ClanOrder, Stored)

RECURSIVE ResetAll(_, _, _, _, _)
\* for clan in all_clans: the exception of one pass ends the loop
ResetAll(rs, time, all_clans, lost_channels, lost_users) ==
    IF all_clans = <<>> \/ rs.error # "none" THEN rs
    ELSE ResetAll(ResetClan(rs, time, Head(all_clans), lost_channels, lost_users),
                  time, Tail(all_clans), lost_channels, lost_users)

\* the body of reset_clans under its condition on weekday, hour and minute
ResetBody ==
    /\ \E lost_channels \in SUBSET DOMAIN clans, lost_users \in SUBSET DOMAIN clans :
           LET rs == ResetAll(ResetState(DB(store, scheduled_for_tasks, scheduled_for_deletion),
                                         clans, sent, "none"),
                              now, get_all_clans(clans), lost_channels, lost_users)
               gone == {r \in store : r.rtype = "clan"} \ rs.db.store
           IN  /\ store' = rs.db.store
               /\ scheduled_for_tasks' = rs.db.tasks
               /\ scheduled_for_deletion' = rs.db.deletion
               /\ deletedEarly' = (deletedEarly \cup Early(gone, now)) \ rs.db.store
               /\ deletedDrained' = deletedDrained \ rs.db.store
               /\ clans' = rs.table
               /\ sent' = rs.sent
               /\ last' = Last(IF rs.error = "none" THEN "reset" ELSE "reset_error", "none", "guild",
                               \E c \in DOMAIN clans : get_clan_reminder(store, c) # {})
    /\ UNCHANGED <<users, running_tasks, timers, started, offView, donorVars>>

\* TasksCog.reset_clans: an iteration of the loop within the configured weekday, hour
\* and minute
ResetClans ==
    /\ ops < MaxOps
    /\ now = ClanResetTime
    /\ ResetBody
    /\ ops' = ops + 1
    /\ UNCHANGED <<now, loopVars, calcVars>>

\* ---------------------------------------------------------------- settings views
otherVars == <<now, clans, store, scheduled_for_tasks, scheduled_for_deletion, running_tasks,
               timers, started, offView, ops, deletedEarly, deletedDrained, auxVars>>

OpenUserSettings_select_enabled(u) ==
    /\ get_user(users, u).exists
    /\ views' = [views EXCEPT ![u] =
                    [kind |-> "user", user_settings |-> get_user(users, u),
                     partner_settings |-> NoUser, partner_select_disabled |-> FALSE]]
    /\ writes' = 0
    /\ last' = Last("open_user", u, "none", FALSE)
    /\ UNCHANGED <<users, donorOps, otherVars>>

\* command_settings_user: get_user, then the view with the User object
OpenUserSettings(u) ==
    /\ get_user(users, u).exists
    /\ views' = [views EXCEPT ![u] =
                    [kind |-> "user", user_settings |-> get_user(users, u),
                     partner_settings |-> NoUser,
                     partner_select_disabled |-> get_user(users, u).partner_id # NoPartner]]
    /\ writes' = 0
    /\ last' = Last("open_user", u, "none", FALSE)
    /\ UNCHANGED <<users, donorOps, otherVars>>

\* command_settings_partner without a new partner: the view with both User objects
OpenPartnerSettings(u) ==
    /\ get_user(users, u).exists
    /\ LET user_settings == get_user(users, u)
           partner_settings == IF user_settings.partner_id # NoPartner
                               THEN get_user(users, user_settings.partner_id)
                               ELSE NoUser
       IN  /\ user_settings.partner_id # NoPartner => partner_settings.exists
           /\ views' = [views EXCEPT ![u] =
                           [kind |-> "partner", user_settings |-> user_settings,
                            partner_settings |-> partner_settings,
                            partner_select_disabled |-> user_settings.partner_id # NoPartner]]
    /\ writes' = 0
    /\ last' = Last("open_partner", u, "none", FALSE)
    /\ UNCHANGED <<users, donorOps, otherVars>>

\* SwitchSettingsSelect.callback: the chosen settings command is called with switch_view
\* and builds its view from the User objects of the view it replaces; the partner's
\* object is read from the table only when the replaced view holds none
SwitchSettings(u, kind) ==
    /\ views[u].kind # "none"
    /\ LET user_settings == views[u].user_settings
           partner_settings ==
               IF kind # "partner" THEN NoUser
               ELSE IF views[u].partner_settings.exists THEN views[u].partner_settings
               ELSE IF user_settings.partner_id # NoPartner
               THEN get_user(users, user_settings.partner_id)
               ELSE NoUser
       IN  /\ (kind = "partner" /\ user_settings.partner_id # NoPartner) => partner_settings.exists
           /\ views' = [views EXCEPT ![u] =
                           [kind |-> kind, user_settings |-> user_settings,
                            partner_settings |-> partner_settings,
                            partner_select_disabled |-> user_settings.partner_id # NoPartner]]
    /\ writes' = 0
    /\ last' = Last("switch_settings", u, "none", FALSE)
    /\ UNCHANGED <<users, donorOps, otherVars>>

\* ManageUserSettingsSelect.callback with the values that flip one switch of the user
UserSwitches == [toggle_reactions |-> "reactions_enabled", toggle_dnd |-> "dnd_mode_enabled"]

ManageUserSettingsSelect(u, select_value) ==
    /\ donorOps < MaxDonorOps
    /\ views[u].kind = "user"
    /\ LET user_settings == views[u].user_settings
           field == UserSwitches[select_value]
           done == update(Statement(users), user_settings,
                          [f \in {field} |-> ~user_settings[field]])
       IN  /\ users' = done.table
           /\ writes' = done.writes
           /\ views' = [views EXCEPT ![u].user_settings = refresh(done.table, user_settings)]
           /\ last' = Last(select_value, u, "none", user_settings[field])
    /\ donorOps' = donorOps + 1
    /\ UNCHANGED otherVars

\* SetDonorTierSelect.callback with donor_type 'user'
SetUserDonorTier(u, tier) ==
    /\ donorOps < MaxDonorOps
    /\ views[u].kind = "user"
    /\ LET user_settings == views[u].user_settings
           done == update(Statement(users), user_settings, [user_donor_tier |-> tier])
       IN  /\ users' = done.table
           /\ writes' = done.writes
           /\ views' = [views EXCEPT ![u].user_settings =
                           IF done.error = "none" THEN refresh(done.table, user_settings) ELSE @]
           /\ last' = Last("user_donor_tier", u, "none", user_settings.partner_id # NoPartner)
    /\ donorOps' = donorOps + 1
    /\ UNCHANGED otherVars

\* SetDonorTierSelect.callback with donor_type 'partner'
SetPartnerDonorTier(u, tier) ==
    /\ donorOps < MaxDonorOps
    /\ views[u].kind \in {"user", "partner"}
    /\ ~views[u].partner_select_disabled
    /\ LET user_settings == views[u].user_settings
           done == update(Statement(users), user_settings, [partner_donor_tier |-> tier])
       IN  /\ users' = done.table
           /\ writes' = done.writes
           /\ views' = [views EXCEPT ![u].user_settings = refresh(done.table, user_settings)]
           /\ last' = Last("partner_donor_tier", u, "none", user_settings.partner_id # NoPartner)
    /\ donorOps' = donorOps + 1
    /\ UNCHANGED otherVars

ResetPartner_own_record_only(u) ==
    /\ donorOps < MaxDonorOps
    /\ views[u].kind = "partner"
    /\ views[u].user_settings.partner_id # NoPartner
    /\ views[u].partner_settings.exists
    /\ LET cleared == [partner_id |-> NoPartner, partner_donor_tier |-> 0]
           own == update(Statement(users), views[u].user_settings, cleared)
       IN  /\ users' = own.table
           /\ writes' = own.writes
           /\ views' = [views EXCEPT ![u].user_settings = refresh(own.table, @),
                                     ![u].partner_settings = NoUser,
                                     ![u].partner_select_disabled = FALSE]
           /\ last' = Last("reset_partner", u, "none", users[u].partner_id # NoPartner)
    /\ donorOps' = donorOps + 1
    /\ UNCHANGED otherVars

\* ManagePartnerSettingsSelect.callback, value 'reset_partner', confirmed
ResetPartner(u) ==
    /\ donorOps < MaxDonorOps
    /\ views[u].kind = "partner"
    /\ views[u].user_settings.partner_id # NoPartner
    /\ views[u].partner_settings.exists
    /\ LET cleared == [partner_id |-> NoPartner, partner_donor_tier |-> 0]
           own == update(Statement(users), views[u].user_settings, cleared)
           both == update(own, views[u].partner_settings, cleared)
       IN  /\ users' = both.table
           /\ writes' = both.writes
           /\ views' = [views EXCEPT ![u].user_settings = refresh(own.table, @),
                                     ![u].partner_settings = NoUser,
                                     ![u].partner_select_disabled = FALSE]
           /\ last' = Last("reset_partner", u, "none", users[u].partner_id # NoPartner)
    /\ donorOps' = donorOps + 1
    /\ UNCHANGED otherVars

\* command_settings_partner with a new partner.  After get_user of both users and, for a
\* user who has a partner, the dialog about replacing it, line 223 builds the proposal
\* from views.ConfirmMarriagelView, a name resources/views.py does not define: the
\* command ends there with AttributeError, before a proposal is shown and before the
\* updates of lines 236-243.
ProposePartner(u, new_partner, value) ==
    /\ get_user(users, u).exists
    /\ get_user(users, new_partner).exists
    /\ LET user_settings == get_user(users, u)
       IN  last' = Last(IF user_settings.partner_id # NoPartner /\ value # "confirm"
                        THEN "propose_aborted" ELSE "propose_error",
                        u, "none", user_settings.partner_id # NoPartner)
    /\ UNCHANGED <<users, donorVars, otherVars>>

\* ---------------------------------------------------------------- specification
Next ==
    \/ Tick
    \/ \E u \in Users, d \in BOOLEAN : CommandOn(u, d)
    \/ \E u \in Users : OffStart(u)
    \/ \E u \in Users, value \in DialogValues : OffResolve(u, value)
    \/ \E i \in ListenerInputs : ArenaOnMessage(i[1], i[2], i[3], i[4], i[5])
    \/ \E i \in ListenerInputs : EventsOnMessage(i[1], i[2], i[3], i[4], i[5])
    \/ ScheduleTasks
    \/ \E id \in DOMAIN timers : BackgroundTaskStart(id)
    \/ \E id \in DOMAIN timers : BackgroundTask(id)
    \/ DeleteOldReminders
    \/ ResetClans

Spec == Init /\ [][Next]_vars

\* the settings views alone, over a table that holds two registered users who are either
\* partners of each other or have no partner
Partnered(table, linked) ==
    [u \in Users |->
        [insert_user(table, u, TRUE)[u] EXCEPT
            !.partner_id = IF linked THEN CHOOSE v \in Users : v # u ELSE NoPartner]]

InitDonor ==
    /\ now = 0
    /\ \E linked \in BOOLEAN : users = Partnered([u \in Users |-> NoUser], linked)
    /\ clans = [c \in Clans |-> [alert_enabled |-> TRUE, channel_id |-> "ch1",
                                 stealth_current |-> 2, stealth_threshold |-> 2,
                                 quest_user_id |-> "none", raids |-> "none", member_ids |-> Users]]
    /\ store = {}
    /\ scheduled_for_tasks = <<>>
    /\ scheduled_for_deletion = <<>>
    /\ running_tasks = <<>>
    /\ timers = <<>>
    /\ started = <<>>
    /\ ListenIdle
    /\ offView = [u \in Users |-> "none"]
    /\ views = [u \in Users |-> NoView]
    /\ writes = 0
    /\ ops = 0
    /\ donorOps = 0
    /\ deletedEarly = {}
    /\ deletedDrained = {}
    /\ last = Last("init", "none", "none", FALSE)
    /\ sent = {}
    /\ LoopIdle
    /\ EditorIdle
    /\ HealIdle
    /\ ModalIdle
    /\ ErrorsIdle

NextDonor ==
    \/ \E u \in Users : OpenUserSettings(u)
    \/ \E u \in Users : OpenPartnerSettings(u)
    \/ \E u \in Users, kind \in {"user", "partner"} : SwitchSettings(u, kind)
    \/ \E u \in Users, tier \in DonorTiers : SetUserDonorTier(u, tier)
    \/ \E u \in Users, tier \in DonorTiers : SetPartnerDonorTier(u, tier)
    \/ \E u \in Users : ResetPartner(u)
    \/ \E u \in Users, new_partner \in Users, value \in DialogValues :
           ProposePartner(u, new_partner, value)

SpecDonor == InitDonor /\ [][NextDonor]_vars

\* the weekly reset over a table of two clans whose alert switch and raid data vary
ResetClanNames == {"c1", "c2"}

InitReset ==
    /\ now = 0
    /\ users = [u \in Users |-> NoUser]
    /\ \E alert \in [ResetClanNames -> BOOLEAN], raids \in [ResetClanNames -> WeeklyReports] :
           clans = [c \in ResetClanNames |->
                       [alert_enabled |-> alert[c],
                        channel_id |-> IF c = "c1" THEN "ch1" ELSE "ch2",
                        stealth_current |-> 2, stealth_threshold |-> 2,
                        quest_user_id |-> "none", raids |-> raids[c], member_ids |-> Users]]
    /\ store = {}
    /\ scheduled_for_tasks = <<>>
    /\ scheduled_for_deletion = <<>>
    /\ running_tasks = <<>>
    /\ timers = <<>>
    /\ started = <<>>
    /\ ListenIdle
    /\ offView = [u \in Users |-> "none"]
    /\ views = [u \in Users |-> NoView]
    /\ writes = 0
    /\ ops = 0
    /\ donorOps = 0
    /\ deletedEarly = {}
    /\ deletedDrained = {}
    /\ last = Last("init", "none", "none", FALSE)
    /\ sent = {}
    /\ LoopIdle
    /\ EditorIdle
    /\ HealIdle
    /\ ModalIdle
    /\ ErrorsIdle

NextReset ==
    \/ Tick
    \/ ScheduleTasks
    \/ \E id \in DOMAIN timers : BackgroundTaskStart(id)
    \/ \E id \in DOMAIN timers : BackgroundTask(id)
    \/ DeleteOldReminders
    \/ ResetClans

SpecReset == InitReset /\ [][NextReset]_vars

\* the reset_clans loop against a clock in seconds.  Second 0 is the first second of the
\* configured minute; the loop was started at some earlier moment, so its next iteration
\* is due at any of the following LoopSeconds seconds
MaxSec == 119

LoopSeconds == 55

MinuteSeconds == 60

InitLoop ==
    /\ now = 0
    /\ users = [u \in Users |-> NoUser]
    /\ \E alert \in BOOLEAN, raids \in WeeklyReports :
           clans = [c \in Clans |-> [alert_enabled |-> alert, channel_id |-> "ch1",
                                     stealth_current |-> 2, stealth_threshold |-> 2,
                                     quest_user_id |-> "none", raids |-> raids, member_ids |-> Users]]
    /\ store = {}
    /\ scheduled_for_tasks = <<>>
    /\ scheduled_for_deletion = <<>>
    /\ running_tasks = <<>>
    /\ timers = <<>>
    /\ started = <<>>
    /\ ListenIdle
    /\ offView = [u \in Users |-> "none"]
    /\ views = [u \in Users |-> NoView]
    /\ writes = 0
    /\ ops = 0
    /\ donorOps = 0
    /\ deletedEarly = {}
    /\ deletedDrained = {}
    /\ last = Last("init", "none", "none", FALSE)
    /\ sent = {}
    /\ EditorIdle
    /\ HealIdle
    /\ ModalIdle
    /\ ErrorsIdle
    /\ sec = 0
    /\ loopNext \in 0 .. (LoopSeconds - 1)
    /\ bodyRuns = 0

\* a second passes in which no iteration of the loop is due
Second ==
    /\ sec < MaxSec
    /\ sec < loopNext
    /\ sec' = sec + 1
    /\ now' = sec' \div MinuteSeconds
    /\ UNCHANGED <<users, clans, store, scheduled_for_tasks, scheduled_for_deletion, running_tasks,
                   timers, started, offView, donorVars, ops, histVars, last, sent, loopNext, bodyRuns,
                   calcVars>>

\* TasksCog.reset_clans: one iteration of the loop, the next one LoopSeconds later
ResetLoop ==
    /\ sec = loopNext
    /\ loopNext' = loopNext + LoopSeconds
    /\ IF now = ClanResetTime
       THEN /\ ResetBody
            /\ bodyRuns' = bodyRuns + 1
       ELSE UNCHANGED <<users, clans, store, scheduled_for_tasks, scheduled_for_deletion,
                        running_tasks, timers, started, offView, donorVars, histVars, last, sent, bodyRuns>>
    /\ UNCHANGED <<now, sec, ops, calcVars>>

NextLoop ==
    \/ Second
    \/ ResetLoop
    \/ ScheduleTasks

SpecLoop == InitLoop /\ [][NextLoop]_vars

\* the reminder-message editor of one registered user, opened on one activity or on "All",
\* over messages that are the defaults or were changed before
InitEditor ==
    /\ now = 0
    /\ users = insert_user([u \in Users |-> NoUser], "u1", TRUE)
    /\ clans = [c \in Clans |-> [alert_enabled |-> TRUE, channel_id |-> "ch1",
                                 stealth_current |-> 2, stealth_threshold |-> 2,
                                 quest_user_id |-> "none", raids |-> "none", member_ids |-> Users]]
    /\ store = {}
    /\ scheduled_for_tasks = <<>>
    /\ scheduled_for_deletion = <<>>
    /\ running_tasks = <<>>
    /\ timers = <<>>
    /\ started = <<>>
    /\ ListenIdle
    /\ offView = [u \in Users |-> "none"]
    /\ views = [u \in Users |-> NoView]
    /\ writes = 0
    /\ ops = 0
    /\ donorOps = 0
    /\ deletedEarly = {}
    /\ deletedDrained = {}
    /\ last = Last("init", "none", "none", FALSE)
    /\ sent = {}
    /\ LoopIdle
    /\ editActivity \in EditActivities \cup {"all"}
    /\ messages \in {DEFAULT_MESSAGES, [hunt |-> <<"b">>, daily |-> <<"a">>]}
    /\ reply = "none"
    /\ HealIdle
    /\ ModalIdle
    /\ ErrorsIdle

NextEditor ==
    \/ \E answer \in Answers : SetMessage(answer)
    \/ ResetMessage
    \/ \E value \in DialogValues : ResetAllMessages(value)

SpecEditor == InitEditor /\ [][NextEditor]_vars

\* the users table with the first player registered with any settings of the helper flags
\* and the second player unregistered
HelperUsers ==
    {[u \in Users |->
         IF u = "u1"
         THEN [insert_user([v \in Users |-> NoUser], u, TRUE)[u] EXCEPT
                  !.bot_enabled = f[1], !.heal_warning_enabled = f[2],
                  !.dnd_mode_enabled = f[3], !.ping_after_message = f[4],
                  !.alert_lottery_enabled = f[2]]
         ELSE NoUser] : f \in [1 .. 4 -> BOOLEAN]}

\* the heal helper over hunt messages of both players
InitHeal ==
    /\ now = 0
    /\ users \in HelperUsers
    /\ clans = [c \in Clans |-> [alert_enabled |-> TRUE, channel_id |-> "ch1",
                                 stealth_current |-> 2, stealth_threshold |-> 2,
                                 quest_user_id |-> "none", raids |-> "none", member_ids |-> Users]]
    /\ store = {}
    /\ scheduled_for_tasks = <<>>
    /\ scheduled_for_deletion = <<>>
    /\ running_tasks = <<>>
    /\ timers = <<>>
    /\ started = <<>>
    /\ ListenIdle
    /\ offView = [u \in Users |-> "none"]
    /\ views = [u \in Users |-> NoView]
    /\ writes = 0
    /\ ops = 0
    /\ donorOps = 0
    /\ deletedEarly = {}
    /\ deletedDrained = {}
    /\ last = Last("init", "none", "none", FALSE)
    /\ sent = {}
    /\ LoopIdle
    /\ EditorIdle
    /\ HealIdle
    /\ ModalIdle
    /\ ErrorsIdle

NextHeal ==
    \E u \in Users, m \in HuntMessages, db_fails \in BOOLEAN : HelperHealOnMessage(u, m, db_fails)

SpecHeal == InitHeal /\ [][NextHeal]_vars

\* the user settings view of two registered players and its last-time-travel modal
InitModal ==
    /\ now = 0
    /\ users = Partnered([u \in Users |-> NoUser], FALSE)
    /\ clans = [c \in Clans |-> [alert_enabled |-> TRUE, channel_id |-> "ch1",
                                 stealth_current |-> 2, stealth_threshold |-> 2,
                                 quest_user_id |-> "none", raids |-> "none", member_ids |-> Users]]
    /\ store = {}
    /\ scheduled_for_tasks = <<>>
    /\ scheduled_for_deletion = <<>>
    /\ running_tasks = <<>>
    /\ timers = <<>>
    /\ started = <<>>
    /\ ListenIdle
    /\ offView = [u \in Users |-> "none"]
    /\ views = [u \in Users |-> NoView]
    /\ writes = 0
    /\ ops = 0
    /\ donorOps = 0
    /\ deletedEarly = {}
    /\ deletedDrained = {}
    /\ last = Last("init", "none", "none", FALSE)
    /\ sent = {}
    /\ LoopIdle
    /\ EditorIdle
    /\ HealIdle
    /\ ModalIdle
    /\ ErrorsIdle

NextModal ==
    \/ \E u \in Users : OpenUserSettings(u)
    \/ \E u \in Users, input \in ModalInputs : SetLastTT(u, input)

SpecModal == InitModal /\ [][NextModal]_vars

\* the lottery listener from the first hour of a day on
InitLottery ==
    /\ now = 0
    /\ users \in HelperUsers
    /\ clans = [c \in Clans |-> [alert_enabled |-> TRUE, channel_id |-> "ch1",
                                 stealth_current |-> 2, stealth_threshold |-> 2,
                                 quest_user_id |-> "none", raids |-> "none", member_ids |-> Users]]
    /\ store = {}
    /\ scheduled_for_tasks = <<>>
    /\ scheduled_for_deletion = <<>>
    /\ running_tasks = <<>>
    /\ timers = <<>>
    /\ started = <<>>
    /\ ListenIdle
    /\ offView = [u \in Users |-> "none"]
    /\ views = [u \in Users |-> NoView]
    /\ writes = 0
    /\ ops = 0
    /\ donorOps = 0
    /\ deletedEarly = {}
    /\ deletedDrained = {}
    /\ last = Last("init", "none", "none", FALSE)
    /\ sent = {}
    /\ LoopIdle
    /\ EditorIdle
    /\ HealIdle
    /\ ModalIdle
    /\ ErrorsIdle

NextLottery ==
    \/ Hour
    \/ \E u \in Users, d12pm \in 0 .. 1, d12am \in 0 .. 1, dinsert \in 0 .. 1 :
           LotteryOnMessage(u, d12pm, d12am, dinsert)

SpecLottery == InitLottery /\ [][NextLottery]_vars

\* log_error under every kind of error, context and outcome of the insert
InitErrors ==
    /\ now = 0
    /\ users = [u \in Users |-> NoUser]
    /\ clans = [c \in Clans |-> [alert_enabled |-> TRUE, channel_id |-> "ch1",
                                 stealth_current |-> 2, stealth_threshold |-> 2,
                                 quest_user_id |-> "none", raids |-> "none", member_ids |-> Users]]
    /\ store = {}
    /\ scheduled_for_tasks = <<>>
    /\ scheduled_for_deletion = <<>>
    /\ running_tasks = <<>>
    /\ timers = <<>>
    /\ started = <<>>
    /\ ListenIdle
    /\ offView = [u \in Users |-> "none"]
    /\ views = [u \in Users |-> NoView]
    /\ writes = 0
    /\ ops = 0
    /\ donorOps = 0
    /\ deletedEarly = {}
    /\ deletedDrained = {}
    /\ last = Last("init", "none", "none", FALSE)
    /\ sent = {}
    /\ LoopIdle
    /\ EditorIdle
    /\ HealIdle
    /\ ModalIdle
    /\ ErrorsIdle

NextErrors ==
    \E error \in ErrorKinds, ctx \in Contexts, db_fails \in BOOLEAN : LogError(error, ctx, db_fails)

SpecErrors == InitErrors /\ [][NextErrors]_vars

\* ---------------------------------------------------------------- clan timers
\* the life of the timers of one clan: the clan listener records the clan's cooldown and
\* its quest holder, the weekly reset runs, and the clock covers the five minutes of the
\* quest follow-up
MaxClock == 7

ClanTimeLefts == {0, 1, 2}

\* the clan listener on the game's guild cooldown: insert_clan_reminder with the wording
\* for the clan's stealth
ClanOnMessage(c, time_left) ==
    /\ ops < MaxOps
    /\ LET db == insert_clan_reminder(DB(store, scheduled_for_tasks, scheduled_for_deletion), now,
                                      c, time_left, clans[c].channel_id, QuestAlertMessage(clans[c]))
       IN  /\ store' = db.store
           /\ scheduled_for_tasks' = db.tasks
           /\ deletedEarly' = deletedEarly \ db.store
           /\ deletedDrained' = deletedDrained \ db.store
    /\ ops' = ops + 1
    /\ last' = Last("clan", c, "guild", get_clan_reminder(store, c) # {})
    /\ UNCHANGED <<now, users, clans, scheduled_for_deletion, running_tasks, timers, started,
                   offView, donorVars, auxVars>>

\* the clan listener on a member who takes the raid quest: Clan.update(quest_user_id=...)
ClanQuestStart(c, u) ==
    /\ ops < MaxOps
    /\ u \in clans[c].member_ids
    /\ clans[c].quest_user_id = "none"
    /\ clans' = [clans EXCEPT ![c].quest_user_id = u]
    /\ ops' = ops + 1
    /\ last' = Last("quest", c, "guild", get_clan_reminder(store, c) # {})
    /\ UNCHANGED <<now, users, schedVars, offView, donorVars, auxVars, histVars>>

TimerTick == Clock(MaxClock)

InitTimer ==
    /\ now = 0
    /\ users = [u \in Users |-> NoUser]
    /\ \E stealth \in 1..2 :
           clans = [c \in Clans |-> [alert_enabled |-> TRUE, channel_id |-> "ch1",
                                     stealth_current |-> stealth, stealth_threshold |-> 2,
                                     quest_user_id |-> "none", raids |-> "none",
                                     member_ids |-> Users]]
    /\ store = {}
    /\ scheduled_for_tasks = <<>>
    /\ scheduled_for_deletion = <<>>
    /\ running_tasks = <<>>
    /\ timers = <<>>
    /\ started = <<>>
    /\ ListenIdle
    /\ offView = [u \in Users |-> "none"]
    /\ views = [u \in Users |-> NoView]
    /\ writes = 0
    /\ ops = 0
    /\ donorOps = 0
    /\ deletedEarly = {}
    /\ deletedDrained = {}
    /\ last = Last("init", "none", "none", FALSE)
    /\ sent = {}
    /\ LoopIdle
    /\ EditorIdle
    /\ HealIdle
    /\ ModalIdle
    /\ ErrorsIdle

NextTimer ==
    \/ TimerTick
    \/ \E c \in Clans, time_left \in ClanTimeLefts : ClanOnMessage(c, time_left)
    \/ \E c \in Clans, u \in Users : ClanQuestStart(c, u)
    \/ ScheduleTasks
    \/ \E id \in DOMAIN timers : BackgroundTaskStart(id)
    \/ \E id \in DOMAIN timers : BackgroundTask(id)
    \/ DeleteOldReminders
    \/ ResetClans

SpecTimer == InitTimer /\ [][NextTimer]_vars

\* the off command beside the lottery listener: registered users who have the bot on
LotteryTimeLefts == {-1, 1, 2}

InitOff ==
    /\ now = 0
    /\ \E alert \in [Users -> BOOLEAN] :
           users = [u \in Users |->
                       [insert_user([v \in Users |-> NoUser], u, TRUE)[u] EXCEPT
                           !.alert_lottery_enabled = alert[u]]]
    /\ clans = [c \in Clans |-> [alert_enabled |-> TRUE, channel_id |-> "ch1",
                                 stealth_current |-> 2, stealth_threshold |-> 2,
                                 quest_user_id |-> "none", raids |-> "none", member_ids |-> Users]]
    /\ store = {}
    /\ scheduled_for_tasks = <<>>
    /\ scheduled_for_deletion = <<>>
    /\ running_tasks = <<>>
    /\ timers = <<>>
    /\ started = <<>>
    /\ ListenIdle
    /\ offView = [u \in Users |-> "none"]
    /\ views = [u \in Users |-> NoView]
    /\ writes = 0
    /\ ops = 0
    /\ donorOps = 0
    /\ deletedEarly = {}
    /\ deletedDrained = {}
    /\ last = Last("init", "none", "none", FALSE)
    /\ sent = {}
    /\ LoopIdle
    /\ EditorIdle
    /\ HealIdle
    /\ ModalIdle
    /\ ErrorsIdle

NextOff ==
    \/ Tick
    \/ \E u \in Users : OffStart(u)
    \/ \E u \in Users, value \in DialogValues : OffResolve(u, value)
    \/ \E u \in Users, time_left \in LotteryTimeLefts : LotteryBuyLoad(u, time_left)
    \/ \E u \in Users : LotteryBuyInsert(u)

SpecOff == InitOff /\ [][NextOff]_vars

\* the same with the scheduling of the event loop: the drain loop, the timers, the purge
\* loop and the clock keep running
FairTimer ==
    /\ WF_vars(TimerTick)
    /\ WF_vars(ScheduleTasks)
    /\ WF_vars(\E id \in DOMAIN timers : BackgroundTaskStart(id))
    /\ WF_vars(\E id \in DOMAIN timers : BackgroundTask(id))
    /\ WF_vars(DeleteOldReminders)

SpecTimerFair == SpecTimer /\ FairTimer

\* the listeners, the drain loop and the timers of the players' reminders, with the
\* scheduling of the event loop
NextBatch ==
    \/ Tick
    \/ \E i \in ListenerInputs : ArenaOnMessage(i[1], i[2], i[3], i[4], i[5])
    \/ ScheduleTasks
    \/ \E id \in DOMAIN timers : BackgroundTaskStart(id)
    \/ \E id \in DOMAIN timers : BackgroundTask(id)

\* a drain tick has something to do
DrainPending ==
    /\ scheduled_for_tasks # <<>> \/ scheduled_for_deletion # <<>>
    /\ DOMAIN timers \subseteq DOMAIN started

\* weak fairness of the clock, of the drain loop (written out: a tick that stays
\* pending is taken) and of the timers
FairBatch ==
    /\ WF_vars(Tick)
    /\ []<>(~DrainPending) \/ []<><<ScheduleTasks>>_vars
    /\ WF_vars(\E id \in DOMAIN timers : BackgroundTaskStart(id))
    /\ WF_vars(\E id \in DOMAIN timers : BackgroundTask(id))

SpecBatchFair == Init /\ [][NextBatch]_vars /\ FairBatch

\* ---------------------------------------------------------------- purge
\* the stale-reminder purge while deletions and the logging of their failures may fail
NextPurge ==
    \/ Tick
    \/ \E i \in ListenerInputs : ArenaOnMessage(i[1], i[2], i[3], i[4], i[5])
    \/ ScheduleTasks
    \/ \E id \in DOMAIN timers : BackgroundTaskStart(id)
    \/ \E id \in DOMAIN timers : BackgroundTask(id)
    \/ \E delete_fails \in SUBSET get_old_reminders(store, now) :
           \E log_fails \in SUBSET delete_fails : PurgeSweep(delete_fails, log_fails)

SpecPurge == Init /\ [][NextPurge]_vars

\* ---------------------------------------------------------------- listeners on their own
\* the settings of the first player: not registered, switched off, alerts off, reactions
\* off, or everything on; the second player is registered with everything on
ListenerUsers ==
    {[u \in Users |->
         IF u = "u1" /\ ~f[1] THEN NoUser
         ELSE [insert_user([v \in Users |-> NoUser], u, TRUE)[u] EXCEPT
                  !.bot_enabled = (u # "u1" \/ f[2]),
                  !.reactions_enabled = (u # "u1" \/ f[4]),
                  !.heal_warning_enabled = (u # "u1" \/ f[3]),
                  !.alert_lottery_enabled = (u # "u1" \/ f[3]),
                  !.alert_arena_enabled = (u # "u1" \/ f[3]),
                  !.alert_farm_enabled = (u # "u1" \/ f[3]),
                  !.alert_horse_breed_enabled = (u # "u1" \/ f[3]),
                  !.alert_big_arena_enabled = (u # "u1" \/ f[3]),
                  !.alert_pet_tournament_enabled = (u # "u1" \/ f[3]),
                  !.alert_horse_race_enabled = (u # "u1" \/ f[3])]] :
        f \in {<<FALSE, FALSE, FALSE, FALSE>>, <<TRUE, FALSE, TRUE, TRUE>>,
               <<TRUE, TRUE, FALSE, TRUE>>, <<TRUE, TRUE, TRUE, FALSE>>,
               <<TRUE, TRUE, TRUE, TRUE>>}}

\* the event reminders the first player has when the message arrives
ListenerReminders == {{}, {"lottery", "pet-tournament"}, EventActivities}

\* minutes the reminders of ListenerReminders have left
OldTimeLeft == 5

RECURSIVE InsertAll(_, _)
\* the reminders of the activities, inserted with the message of the player's own command
InsertAll(db, activities) ==
    IF activities = <<>> THEN db
    ELSE InsertAll(insert_user_reminder(db, 0, "u1", Head(activities), OldTimeLeft, "ch1",
                                        <<"old message", Head(activities)>>, TRUE),
                   Tail(activities))

\* the listeners right after the reminders of the player were inserted
InitListen ==
    /\ now = 0
    /\ users \in ListenerUsers
    /\ clans = [c \in Clans |-> [alert_enabled |-> TRUE, channel_id |-> "ch1",
                                 stealth_current |-> 2, stealth_threshold |-> 2,
                                 quest_user_id |-> "none", raids |-> "none", member_ids |-> Users]]
    /\ \E activities \in ListenerReminders :
          LET db == InsertAll(DB({}, <<>>, <<>>),
                                 SelectSeq(EventOrder, LAMBDA a : a \in activities))
          IN  /\ store = db.store
              /\ scheduled_for_tasks = db.tasks
    /\ scheduled_for_deletion = <<>>
    /\ running_tasks = <<>>
    /\ timers = <<>>
    /\ started = <<>>
    /\ ListenIdle
    /\ offView = [u \in Users |-> "none"]
    /\ views = [u \in Users |-> NoView]
    /\ writes = 0
    /\ ops = 0
    /\ donorOps = 0
    /\ deletedEarly = {}
    /\ deletedDrained = {}
    /\ last = Last("init", "none", "none", FALSE)
    /\ sent = {}
    /\ LoopIdle
    /\ EditorIdle
    /\ HealIdle
    /\ ModalIdle
    /\ ErrorsIdle

\* the listeners are watched for one message, new or edited
NextListen ==
    \/ /\ heard = NotHeard
       /\ \E message \in ChatMessages : OnMessage(message)
    \/ /\ heard = NotHeard
       /\ \E message \in ChatMessages : \E components \in ComponentSets :
             OnMessageEdit(message, components)

SpecListen == InitListen /\ [][NextListen]_vars


\* ---------------------------------------------------------------- the daily quest alone
\* the command is seen once, at any instant of a month of 28 or 31 days; the clock of
\* the reminders counts the seconds of that month
InitCelDaily ==
    /\ \E month_days \in MonthLengths :
       \E utcnow \in {dt \in Instants : dt.day <= month_days} :
          /\ calendar = Calendar(month_days, utcnow, "none", "pending")
          /\ now = Seconds(utcnow, month_days)
    /\ users \in ListenerUsers
    /\ clans = [c \in Clans |-> [alert_enabled |-> TRUE, channel_id |-> "ch1",
                                 stealth_current |-> 2, stealth_threshold |-> 2,
                                 quest_user_id |-> "none", raids |-> "none", member_ids |-> Users]]
    /\ store = {}
    /\ scheduled_for_tasks = <<>>
    /\ scheduled_for_deletion = <<>>
    /\ running_tasks = <<>>
    /\ timers = <<>>
    /\ started = <<>>
    /\ heard = NotHeard
    /\ listening = [u \in Users |-> NotListening]
    /\ offView = [u \in Users |-> "none"]
    /\ views = [u \in Users |-> NoView]
    /\ writes = 0
    /\ ops = 0
    /\ donorOps = 0
    /\ deletedEarly = {}
    /\ deletedDrained = {}
    /\ last = Last("init", "none", "none", FALSE)
    /\ sent = {}
    /\ LoopIdle
    /\ EditorIdle
    /\ HealIdle
    /\ ModalIdle
    /\ ErrorsIdle

NextCelDaily == \E user \in Users : CelDailyQuest(user)

SpecCelDaily == InitCelDaily /\ [][NextCelDaily]_vars


\* ---------------------------------------------------------------- the clan settings alone
\* a clan led by u1 whose reminder is on only with a channel, with or without a reminder
\* in the store
ClanRecord(alert_enabled, channel_id, stealth_current, stealth_threshold) ==
    [alert_enabled |-> alert_enabled, channel_id |-> channel_id,
     stealth_current |-> stealth_current, stealth_threshold |-> stealth_threshold,
     quest_user_id |-> "none", raids |-> "none", member_ids |-> Users,
     leader_id |-> "u1", alert_visible |-> TRUE, upgrade_quests_enabled |-> FALSE]

InitClanSettings ==
    /\ now = 0
    /\ users = Partnered([u \in Users |-> NoUser], FALSE)
    /\ \E alert_enabled \in BOOLEAN, channel_id \in {NoChannel, "ch1"}, reminded \in BOOLEAN :
          /\ alert_enabled => channel_id # NoChannel
          /\ reminded => channel_id # NoChannel
          /\ clans = [c \in Clans |-> ClanRecord(alert_enabled, channel_id, 2, 2)]
          /\ LET db == insert_clan_reminder(DB({}, <<>>, <<>>), 0, "c1", 1, channel_id,
                                            "guild raid")
             IN  IF reminded
                 THEN store = db.store /\ scheduled_for_tasks = db.tasks
                 ELSE store = {} /\ scheduled_for_tasks = <<>>
    /\ scheduled_for_deletion = <<>>
    /\ running_tasks = <<>>
    /\ timers = <<>>
    /\ started = <<>>
    /\ ListenIdle
    /\ offView = [u \in Users |-> "none"]
    /\ views = [u \in Users |-> NoView]
    /\ writes = 0
    /\ ops = 0
    /\ donorOps = 0
    /\ deletedEarly = {}
    /\ deletedDrained = {}
    /\ last = Last("init", "none", "none", FALSE)
    /\ sent = {}
    /\ LoopIdle
    /\ EditorIdle
    /\ HealIdle
    /\ ModalIdle
    /\ ErrorsIdle

NextClanSettings ==
    \/ \E v \in ViewIds, u \in Users : OpenClanSettings(v, u)
    \/ \E v \in ViewIds, u \in Users : OpenReadySettings(v, u)
    \/ \E v \in ViewIds, u \in Users, selection \in ClanSelections :
           ManageClanSettingsSelect(v, u, selection[1], selection[2], "ch1")
    \/ \E v \in ViewIds, text \in ThresholdTexts : SetStealthThresholdModal(v, text)
    \/ \E v \in ViewIds, u \in Users : ManageReadySettingsSelect(v, u)

SpecClanSettings == InitClanSettings /\ [][NextClanSettings]_vars


\* ---------------------------------------------------------------- the clan wording
\* the timers of a clan whose leader changes the stealth threshold while they run
InitWording ==
    /\ now = 0
    /\ users = [u \in Users |-> NoUser]
    /\ \E stealth_current \in 1 .. 2 :
          clans = [c \in Clans |-> ClanRecord(TRUE, "ch1", stealth_current, 2)]
    /\ store = {}
    /\ scheduled_for_tasks = <<>>
    /\ scheduled_for_deletion = <<>>
    /\ running_tasks = <<>>
    /\ timers = <<>>
    /\ started = <<>>
    /\ ListenIdle
    /\ offView = [u \in Users |-> "none"]
    /\ views = [u \in Users |-> NoView]
    /\ writes = 0
    /\ ops = 0
    /\ donorOps = 0
    /\ deletedEarly = {}
    /\ deletedDrained = {}
    /\ last = Last("init", "none", "none", FALSE)
    /\ sent = {}
    /\ LoopIdle
    /\ EditorIdle
    /\ HealIdle
    /\ ModalIdle
    /\ ErrorsIdle

NextWording ==
    \/ TimerTick
    \/ \E c \in Clans : ClanOnMessage(c, 1)
    \/ \E c \in Clans : ClanQuestStart(c, "u2")
    \/ ScheduleTasks
    \/ \E id \in DOMAIN timers : BackgroundTaskStart(id)
    \/ \E id \in DOMAIN timers : BackgroundTask(id)
    \/ ResetClans
    \/ OpenClanSettings("v1", "u1")
    \/ ManageClanSettingsSelect("v1", "u1", "set_threshold", "confirm", "ch1")
    \/ \E text \in {<<"1">>, <<"9", "5">>} : SetStealthThresholdModal("v1", text)

SpecWording == InitWording /\ [][NextWording]_vars


\* ---------------------------------------------------------------- the DND switch
\* a registered player with one reminder on its way to a timer, and the player's user
\* settings view
InitDnd ==
    /\ now = 0
    /\ \E dnd \in BOOLEAN :
          users = [u \in Users |->
                      [Partnered([v \in Users |-> NoUser], FALSE)[u] EXCEPT
                          !.dnd_mode_enabled = dnd]]
    /\ clans = [c \in Clans |-> ClanRecord(TRUE, "ch1", 2, 2)]
    /\ \E u \in Users, activity \in {"hunt", "work"}, time_left \in 1 .. MaxTime :
          LET db == insert_user_reminder(DB({}, <<>>, <<>>), 0, u, activity, time_left, "ch1",
                                         AlertMessage(activity), TRUE)
          IN  /\ store = db.store
              /\ scheduled_for_tasks = db.tasks
    /\ scheduled_for_deletion = <<>>
    /\ running_tasks = <<>>
    /\ timers = <<>>
    /\ started = <<>>
    /\ ListenIdle
    /\ offView = [u \in Users |-> "none"]
    /\ views = [u \in Users |-> NoView]
    /\ writes = 0
    /\ ops = 0
    /\ donorOps = 0
    /\ deletedEarly = {}
    /\ deletedDrained = {}
    /\ last = Last("init", "none", "none", FALSE)
    /\ sent = {}
    /\ LoopIdle
    /\ EditorIdle
    /\ HealIdle
    /\ ModalIdle
    /\ ErrorsIdle

NextDnd ==
    \/ Tick
    \/ ScheduleTasks
    \/ \E id \in DOMAIN timers : BackgroundTaskStart(id)
    \/ \E id \in DOMAIN timers : BackgroundTask(id)
    \/ \E u \in Users : OpenUserSettings(u)
    \/ \E u \in Users, select_value \in DOMAIN UserSwitches :
           ManageUserSettingsSelect(u, select_value)

SpecDnd == InitDnd /\ [][NextDnd]_vars

\* ---------------------------------------------------------------- properties
TaskNamesOf(batch) == {TaskName(batch[i]) : i \in 1..Len(batch)}

LiveTimers == DOMAIN timers

\* C1: at most one live timer delivers a reminder with a given task name: no two live
\* timers hold reminders with the same task name.
C1_OneLiveTimerPerTaskName ==
    \A i \in LiveTimers, j \in LiveTimers :
        i # j => TaskNamesOf(timers[i]) \cap TaskNamesOf(timers[j]) = {}

\* C2: a reminder that was deleted before its due instant is delivered by no timer once
\* a drain tick has run after the deletion.
C2_DeletedNeverDelivered ==
    [][\A id \in LiveTimers :
           BackgroundTask(id) => SeqToSet(timers[id]) \cap deletedDrained = {}]_vars

\* the store holds at most one row per (reminder type, target, activity)
OneRowPerKey(rows) ==
    \A r1 \in rows, r2 \in rows :
        (r1.rtype = r2.rtype /\ r1.target = r2.target /\ r1.activity = r2.activity) => r1 = r2

\* C3: the store holds at most one reminder per (target, activity) key after every
\* operation, and the reminder read back after an insertion is due at the insertion
\* time plus the supplied duration.
C3_OneReminderPerKey ==
    [][/\ OneRowPerKey(store')
       /\ \A i \in ListenerInputs :
              ArenaOnMessage(i[1], i[2], i[3], i[4], i[5]) =>
                  /\ get_user_reminder(store', i[1], i[2]) # {}
                  /\ \A r \in get_user_reminder(store', i[1], i[2]) : r.end_time = now + i[4]
       /\ ResetClans =>
              \A c \in Clans : \A r \in get_clan_reminder(store', c) :
                  r.end_time = now + ResetTimeLeft]_vars

C3_Witness ==
    /\ last.op = "insert"
    /\ last.existed
    /\ Cardinality(get_user_reminder(store, last.target, last.activity)) = 1

\* C4: re-inserting for an existing key with overwrite_message=false sets the end time
\* and keeps the stored message; with the default policy both are set.
C4_OverwritePolicy ==
    [][\A i \in ListenerInputs :
           \A old \in get_user_reminder(store, i[1], i[2]) :
               /\ EventsOnMessage(i[1], i[2], i[3], i[4], i[5]) =>
                      get_user_reminder(store', i[1], i[2]) =
                          {[old EXCEPT !.end_time = now + i[4], !.channel_id = i[3]]}
               /\ ArenaOnMessage(i[1], i[2], i[3], i[4], i[5]) =>
                      get_user_reminder(store', i[1], i[2]) =
                          {[old EXCEPT !.end_time = now + i[4], !.channel_id = i[3],
                                       !.message = i[5]]}]_vars

C4_Witness ==
    /\ last.op = "update"
    /\ \E r \in get_user_reminder(store, last.target, last.activity) :
           r.message = "m1" /\ r.end_time = now + 2 /\ r.channel_id = "ch2"

UserPending == {r \in SeqToSet(scheduled_for_tasks) : r.rtype = "user"}

ClanPending == {r \in SeqToSet(scheduled_for_tasks) : r.rtype = "clan"}

\* C5: after a drain tick the pending user reminders sit in the same new timer exactly
\* when they agree in user id, channel id and due instant, each in exactly one new timer,
\* and every pending clan reminder has a new timer of its own.
C5_Batching ==
    [][ScheduleTasks =>
        LET NewIds == DOMAIN timers' \ DOMAIN timers
            Holds(id, r) == r \in SeqToSet(timers'[id])
        IN  /\ \A r \in UserPending : Cardinality({id \in NewIds : Holds(id, r)}) = 1
            /\ \A r1 \in UserPending, r2 \in UserPending :
                   (\E id \in NewIds : Holds(id, r1) /\ Holds(id, r2))
                       <=> (/\ r1.target = r2.target
                            /\ r1.channel_id = r2.channel_id
                            /\ r1.end_time = r2.end_time)
            /\ \A id \in NewIds :
                   /\ SeqToSet(timers'[id]) \subseteq UserPending \cup ClanPending
                   /\ Len(timers'[id]) = Cardinality(SeqToSet(timers'[id]))
                   /\ timers'[id][1].rtype = "clan" => Len(timers'[id]) = 1
            /\ \A r \in ClanPending : \E id \in NewIds : timers'[id] = <<r>>]_vars

StaleTimers == {id \in LiveTimers : \E r \in SeqToSet(timers[id]) :
                    r.rtype = "user" /\ r \in deletedEarly \ deletedDrained}

\* C7 as stated: after a confirmed off the user is disabled and the store holds no
\* reminder of the user at all; the timers of the deleted reminders are cancelled by
\* the next drain tick.
C7_OffDeletesEveryReminder ==
    [][/\ \A u \in Users :
              OffResolve(u, "confirm") =>
                  /\ ~users'[u].bot_enabled
                  /\ {r \in store' : r.rtype = "user" /\ r.target = u} = {}
                  /\ get_active_user_reminders(store', u, now) = {}
       /\ ScheduleTasks => StaleTimers \cap DOMAIN timers' = {}]_vars

\* C7 as amended: after a confirmed off the user is disabled and the store holds no
\* reminder of the user that is not yet due (get_active_user_reminders finds none);
\* the timers of the deleted reminders are cancelled by the next drain tick.
C7_OffDeletesActiveReminders ==
    [][/\ \A u \in Users :
              OffResolve(u, "confirm") =>
                  /\ ~users'[u].bot_enabled
                  /\ {r \in store' : r.rtype = "user" /\ r.target = u /\ r.end_time > now} = {}
                  /\ get_active_user_reminders(store', u, now) = {}
       /\ ScheduleTasks => StaleTimers \cap DOMAIN timers' = {}]_vars

C7_Witness ==
    /\ last.op = "confirm"
    /\ ~users[last.target].bot_enabled
    /\ \E id \in StaleTimers : timers[id][1].target = last.target
    /\ \E r \in store : r.target = last.target /\ r.end_time <= now

\* C8: a cancelled or timed out off dialog changes neither the settings nor the
\* reminders nor the timers.
C8_OffCancelUnchanged ==
    [][\A u \in Users, value \in {"cancel", "timeout"} :
           OffResolve(u, value) =>
               UNCHANGED <<users, store, scheduled_for_tasks, scheduled_for_deletion,
                           running_tasks, timers>>]_vars

C8_Witness ==
    /\ last.op \in {"cancel", "timeout"}
    /\ users[last.target].bot_enabled
    /\ get_active_user_reminders(store, last.target, now) # {}
    /\ \E id \in LiveTimers : timers[id][1].target = last.target

\* C9: after the on command the user has a settings record with bot_enabled true; a
\* user who was already on keeps an unchanged record.
C9_OnEnables ==
    [][\A u \in Users, d \in BOOLEAN :
           CommandOn(u, d) =>
               /\ users'[u].exists
               /\ users'[u].bot_enabled
               /\ \A v \in Users \ {u} : users'[v] = users[v]
               /\ (users[u].exists /\ users[u].bot_enabled) => users'[u] = users[u]
               /\ users[u].exists =>
                      users'[u] = [users[u] EXCEPT !.bot_enabled = TRUE]]_vars

C9_Witness ==
    /\ last.op = "on"
    /\ ~last.existed
    /\ users[last.target].exists
    /\ users[last.target].bot_enabled

\* C10: User.update(user_donor_tier = N) on a User object whose partner_id is set leaves
\* the partner's stored record with partner_donor_tier = N; on an object with no partner
\* exactly one record is written and no other record changes; in either case at most two
\* records are written (the cascade does not cascade again).
C10_DonorCascade ==
    [][\A u \in Users, tier \in DonorTiers :
          SetUserDonorTier(u, tier) =>
              LET user == views[u].user_settings
              IN  /\ users'[u].user_donor_tier = tier
                  /\ (user.partner_id # NoPartner /\ get_user(users, user.partner_id).exists)
                         => users'[user.partner_id].partner_donor_tier = tier
                  /\ user.partner_id = NoPartner
                         => /\ writes' = 1
                            /\ \A v \in Users \ {u} : users'[v] = users[v]
                  /\ writes' <= 2]_vars

\* a donor tier update that cascaded: two records written, the partner's record carries
\* the new, non-default tier
C10_Witness ==
    /\ last.op = "user_donor_tier"
    /\ last.existed
    /\ writes = 2
    /\ users[last.target].user_donor_tier = 2
    /\ users[last.target].partner_id # NoPartner
    /\ users[users[last.target].partner_id].partner_donor_tier = 2

\* C12: after the weekly clan reset has run, every clan has stealth_current = 1, whatever
\* the clans' alert switches, channels and raid data are and whatever happens while
\* another clan's reminder or report is being handled.
C12_ResetAllStealth ==
    [][ResetClans => \A c \in DOMAIN clans : clans'[c].stealth_current = 1]_vars

\* C14: at the weekly clan reset a clan without raid-energy data for the week gets a
\* weekly report posted to its channel, with the placeholder line for the best raid and
\* the placeholder line for the worst raid.
C14_NoDataReportPosted ==
    [][ResetClans =>
          \A c \in DOMAIN clans :
              clans[c].raids = "none" =>
                  \E m \in sent' : /\ m.kind = "weekly_report"
                                    /\ m.target = c
                                    /\ m.channel_id = clans[c].channel_id
                                    /\ m.best = "placeholder"
                                    /\ m.worst = "placeholder"]_vars

\* C13: the weekly clan reset executes its body exactly once for each weekly occurrence
\* of the configured minute: never twice within the minute, and at least once by the time
\* the minute is over.
C13_ResetOncePerOccurrence ==
    /\ bodyRuns <= 1
    /\ now > ClanResetTime => bodyRuns >= 1

\* C15: when a timer fires and delivers its reminders, the rows of the delivered
\* reminders are deleted from the store as part of the delivery: right after the delivery
\* the store holds none of them.
C15_DeliveredRowDeleted ==
    [][\A id \in LiveTimers :
           BackgroundTask(id) => SeqToSet(timers[id]) \cap store' = {}]_vars

\* every {placeholder} token of a message is a placeholder token of the activity's
\* default template
OnlyDefaultPlaceholders(new_message, activity) ==
    \A i \in 1 .. Len(finditer(new_message, 1)) :
        finditer(new_message, 1)[i] \in Range(finditer(DEFAULT_MESSAGES[activity], 1))

\* C16: the Change action of the reminder-message editor stores a proposed message if and
\* only if every {placeholder} token in it is a placeholder token of the activity's
\* default template (a message without placeholders is accepted); otherwise the message
\* is rejected and the stored message is unchanged.
C16_PlaceholderAllowList ==
    [][\A content \in Messages :
           SetMessage([kind |-> "text", mentions_other |-> FALSE, content |-> content]) =>
               IF OnlyDefaultPlaceholders(content, editActivity)
               THEN reply' = "updated" /\ messages'[editActivity] = content
               ELSE reply' = "invalid_placeholder" /\ messages' = messages]_vars

\* C17: for a hunt-together result of a player with bot_enabled and heal_warning_enabled a
\* heal warning is posted if and only if 10 * health_lost > 9 * health_remaining: lost 50
\* with 55 remaining warns, lost 50 with 60 remaining does not, and the fallback of lost
\* 100 with 0 remaining always warns; no warning is posted when either flag is off.
C17_HealWarning ==
    heal.kind \in {"health", "lost_but"} =>
        LET on == /\ get_user(users, heal.user).bot_enabled
                  /\ get_user(users, heal.user).heal_warning_enabled
            lost == IF heal.kind = "health" THEN heal.lost ELSE 100
            remaining == IF heal.kind = "health" THEN heal.remaining ELSE 0
        IN  /\ heal.out \in Warnings <=> (on /\ 10 * lost > 9 * remaining)
            /\ (on /\ lost = 50 /\ remaining = 55) => heal.out \in Warnings
            /\ (on /\ lost = 50 /\ remaining = 60) => heal.out \notin Warnings
            /\ (on /\ heal.kind = "lost_but") => heal.out \in Warnings

\* a warning was posted for lost 50 with 55 remaining, the case next to the threshold
C17_Witness ==
    /\ heal.kind = "health"
    /\ heal.lost = 50
    /\ heal.remaining = 55
    /\ heal.out \in Warnings

\* the first of the boundaries 12:00 and 00:00 that lies strictly after an instant
FirstBoundaryAfter(time) ==
    CHOOSE b \in {k * 12 : k \in 0 .. 4} : b > time /\ b - time <= 12

EpochShifted == <<DiscordEpoch[1], DiscordEpoch[2], 0>>

\* C19 as stated: the decoder maps the id that is the epoch offset 1,420,070,400,000
\* shifted left by 22 bits to the epoch instant itself, 1,420,070,400,000 ms
\* (2015-01-01T00:00:00Z, 1,420,070,400 s).
C19_EpochShiftedIsEpoch ==
    (modalReply.out = "updated" /\ modalReply.input.id = EpochShifted) =>
        users[modalReply.user].last_tt = WideDiv(DiscordEpoch, 1000)

\* C19 amended: the decoder adds the epoch offset to the upper 42 bits of the id, so the
\* id that is the epoch offset shifted left by 22 bits is mapped to twice the epoch
\* offset, 2,840,140,800,000 ms (2060-01-01T00:00:00Z), and an id whose upper 42 bits are
\* zero is mapped to the epoch instant itself.
C19_EpochShiftedIsTwiceEpoch ==
    /\ modalReply.input.kind \in {"id", "link"} => modalReply.out = "updated"
    /\ (modalReply.out = "updated" /\ modalReply.input.id = EpochShifted) =>
           users[modalReply.user].last_tt = <<1354, 596992>>
    /\ (modalReply.out = "updated" /\ modalReply.input.id[1] = 0
           /\ modalReply.input.id[2] = 0) =>
           users[modalReply.user].last_tt = <<677, 298496>>

\* a player's last time travel was set from the id that is the epoch offset shifted left
\* by 22 bits
C19_Witness ==
    /\ modalReply.out = "updated"
    /\ modalReply.input.id = EpochShifted
    /\ users[modalReply.user].last_tt # NoUser.last_tt

\* C20: log_error never swallows a failure of its own write: when the insert into the
\* errors table fails, the failure is written to the plain-text log and the storage error
\* is raised to the caller; when the insert succeeds exactly one row is appended, with
\* message_content, user_settings and jump_url equal to "N/A" when no chat context was
\* given.
C20_LogErrorRaises ==
    [][\A error \in ErrorKinds, ctx \in Contexts, db_fails \in BOOLEAN :
           LogError(error, ctx, db_fails) =>
               IF db_fails
               THEN /\ raised' = "sqlite3.Error"
                    /\ logfile' = Append(logfile, "INTERNAL_ERROR_SQLITE3")
                    /\ errorRows' = errorRows
               ELSE /\ raised' = "none"
                    /\ Len(errorRows') = Len(errorRows) + 1
                    /\ SubSeq(errorRows', 1, Len(errorRows)) = errorRows
                    /\ ctx = "none" =>
                           LET row == errorRows'[Len(errorRows')]
                           IN  /\ row.message_content = "N/A"
                               /\ row.user_settings = "N/A"
                               /\ row.jump_url = "N/A"]_vars

\* the reminder the weekly reset has inserted for a clan and not yet handed to a timer
FreshResetReminder(c) ==
    {r \in SeqToSet(scheduled_for_tasks) :
        /\ r.rtype = "clan" /\ r.target = c
        /\ r.end_time = ClanResetTime + ResetTimeLeft
        /\ r \in store}

\* C21: at the weekly reset of a clan with alert_enabled that already had a clan reminder,
\* the old reminder is deleted and the reminder the reset inserts is the one that stays
\* scheduled: the drain tick that follows the reset leaves a live timer that holds the
\* fresh reminder.
C21_FreshResetTimer ==
    [][(ScheduleTasks /\ last.op = "reset" /\ last.existed) =>
          \A c \in DOMAIN clans : \A r \in FreshResetReminder(c) :
              clans[c].alert_enabled => \E id \in DOMAIN timers' : timers'[id] = <<r>>]_vars

\* the raid-quest pings a clan's channel has received for a member
QuestPings(c, u, posted) ==
    {m \in posted : m.kind = "raid_quest" /\ m.target = c /\ m.mentions = {u}}

\* the started timers a drain tick cancels
CancelledByDrain == {id \in DOMAIN started : ScheduleTasks /\ id \notin DOMAIN timers'}

\* C22: the scheduler clears a clan's quest_user_id only when the clan's quest reminder
\* fires: a step that takes quest_user_id from a member to none has pinged that member
\* with the raid-quest message, and a timer that a drain tick cancels or replaces before
\* its due instant has not cleared quest_user_id.
C22_QuestClearedOnFire ==
    [][/\ \A c \in DOMAIN clans :
              (clans[c].quest_user_id # "none" /\ clans'[c].quest_user_id = "none") =>
                  QuestPings(c, clans[c].quest_user_id, sent') # {}
       /\ \A id \in CancelledByDrain : started[id].quest_user_id = "none"]_vars

\* the clan reminder due five minutes after instant t
QuestFollowUp(c, t, rows) ==
    {r \in get_clan_reminder(rows, c) : r.end_time = t + QuestTimeLeft}

\* the timer of a clan with a quest holder has fired at instant t
QuestFired(c, t) == \E m \in sent : m.kind = "raid_quest" /\ m.target = c /\ m.time = t

\* every registered member of the clan was pinged five minutes after instant t
MembersPinged(c, t) ==
    \E m \in sent : /\ m.kind = "clan_reminder" /\ m.target = c
                    /\ m.time = t + QuestTimeLeft
                    /\ m.mentions = clans[c].member_ids

\* the follow-up reminder of instant t was replaced or deleted before it was due
FollowUpReplaced(c, t) ==
    /\ now <= t + QuestTimeLeft
    /\ QuestFollowUp(c, t, store) = {}
    /\ ~\E m \in sent : m.target = c /\ m.time = t + QuestTimeLeft

\* the step of a clan timer that fires while the clan has a quest holder
QuestFireStep(id) ==
    LET c == timers[id][1].target
        ping == ClanMessage("raid_quest", timers[id][1].channel_id, c,
                            {clans[c].quest_user_id}, "raid quest", now)
    IN  /\ ping \in sent'
        /\ sent' \ sent \subseteq {ping}
        /\ \E r \in QuestFollowUp(c, now, store') :
               /\ r.message = IF clans[c].stealth_current >= clans[c].stealth_threshold
                               THEN "guild raid" ELSE "guild upgrade"
               /\ r \in SeqToSet(scheduled_for_tasks')

\* C23: when a clan timer fires for a clan that has a quest holder, only the quest holder
\* is pinged and a clan reminder due five minutes later is inserted, worded as the raid
\* command when stealth_current >= stealth_threshold and as the upgrade command otherwise;
\* the timer of that reminder, unless the reminder is replaced or deleted first, fires
\* five minutes later and pings every registered member.
C23_QuestFollowUp ==
    /\ [][\A id \in DOMAIN started :
              (/\ BackgroundTask(id)
               /\ timers[id][1].rtype = "clan"
               /\ clans[timers[id][1].target].quest_user_id # "none") => QuestFireStep(id)]_vars
    /\ \A c \in Clans, t \in 0..(MaxClock - QuestTimeLeft) :
           QuestFired(c, t) ~> (MembersPinged(c, t) \/ FollowUpReplaced(c, t))

\* C24: a timer that has fired is removed from the running-timers map: running_tasks only
\* ever holds timers that have not yet finished, on the user path, on the clan
\* all-members path and on the clan quest-holder path.
C24_RunningTasksLive ==
    \A task_name \in DOMAIN running_tasks : running_tasks[task_name] \in DOMAIN timers

\* C25: in the stale-reminder purge a failure to delete one old reminder is logged and does
\* not stop the sweep: every other old reminder of the sweep is deleted and the purge loop
\* keeps running, whatever the outcome of the deletions and of the logging of their
\* failures.
C25_PurgeSweepsOn ==
    [][\A delete_fails \in SUBSET get_old_reminders(store, now) :
           \A log_fails \in SUBSET delete_fails :
               PurgeSweep(delete_fails, log_fails) =>
                   /\ (get_old_reminders(store, now) \ delete_fails) \cap store' = {}
                   /\ Len(logfile') = Len(logfile) + Cardinality(delete_fails)
                   /\ purgeRunning']_vars

\* ---------------------------------------------------------------- listener properties
\* the calls of a cog are the reply of the Fun listener to its phrase from a human author
FunPhraseReply(h, cog) ==
    /\ cog = "fun"
    /\ h.message.kind = "navi_lit"
    /\ ~AuthorIsBot(h.message.author)
    /\ \A i \in 1..Len(h.calls[cog]) : h.calls[cog][i].op = "reply"

\* the calls of a cog are those of the Events listener for the text command
\* "rpg cel ... dailyquest": a "cel-daily" reminder of the author and a reaction
DailyQuestCommand(h, cog) ==
    /\ cog = "events"
    /\ h.message.kind = "cel_dailyquest"
    /\ \A i \in 1..Len(h.calls[cog]) :
          \/ h.calls[cog][i].op = "add_reaction"
          \/ /\ h.calls[cog][i].op = "insert_user_reminder"
             /\ h.calls[cog][i].user = h.message.author
             /\ h.calls[cog][i].arg = "cel-daily"

\* a step in which the listeners see a message that the game bot did not write
HearsStranger == heard' # heard /\ heard'.message.author # EPIC_RPG_ID

AllDisabled(components) ==
    components # <<>> /\ \A i \in 1..Len(components) : components[i]

\* C27: in every listener an edited message of the game bot is processed exactly as a new
\* message would be, unless all of its components are disabled, in which case it is
\* ignored; an edited message with at least one enabled component is processed
C27_EditedAsNew ==
    [][(heard' # heard /\ heard'.edited /\ heard'.message.author = EPIC_RPG_ID) =>
          \A cog \in CogNames :
              heard'.calls[cog] =
                  IF AllDisabled(heard'.components) THEN <<>>
                  ELSE Listeners(heard'.message, users, store, now)[cog]]_vars

\* the time left a handler computes from the message is negative; for the field "normal
\* events" every line of the field gives a negative time left
NegativeTimeLeft(message) ==
    CASE message.kind \in {"arena_cooldown", "horse_cooldown", "farm_cooldown", "lottery_event",
                           "lottery_buy"} ->
             calculate_time_left_from_timestring(message) < 0
      [] message.kind \in {"farm_planted", "farm_event", "farm_event_slash"} ->
             calculate_time_left_from_cooldown(message) < 0
      [] message.kind = "events_normal" ->
             /\ DOMAIN message.cooldowns # {}
             /\ \A a \in DOMAIN message.cooldowns :
                   message.cooldowns[a] + (IF a = "pet-tournament" THEN 1 ELSE 0)
                       - message.elapsed < 0
      [] OTHER -> FALSE

\* a call that inserts a reminder, confirms one with a reaction, or posts a message; the
\* warning reaction for a player that was not found is none of these
Confirms(call) ==
    \/ call.op \in {"insert_user_reminder", "send", "reply"}
    \/ call.op = "add_reaction" /\ call.arg # "WARNING"

\* C28: no listener calls insert_user_reminder with a negative time left, and when the
\* time left computed from a message is negative, the handler ends without an insertion,
\* without a reaction and without a message
C28_NoNegativeInsert ==
    [][heard' # heard =>
          \A cog \in CogNames : \A i \in 1..Len(heard'.calls[cog]) :
              LET call == heard'.calls[cog][i]
              IN  /\ call.op = "insert_user_reminder" => call.time_left >= 0
                  /\ NegativeTimeLeft(heard'.message) => ~Confirms(call)]_vars

\* the kinds of message whose handler has to find the acting player from the interaction,
\* a name, the channel history or a mention
IdentifyingKinds ==
    Kinds \ {"farm_event_slash", "cel_multiply_reject", "cel_dailyquest", "navi_lit", "other"}

\* the message names no acting player: no interaction user, no name in the text, no command
\* in the channel history and no mention
Unidentified(message) ==
    /\ message.interaction_user = "none"
    /\ message.name = "none"
    /\ message.history_user = "none"
    /\ message.mention = "none"

\* C29: when the acting player of a new message of the game bot cannot be identified, the
\* handler attaches the warning reaction, logs an error and ends without a store write, a
\* settings write, a message or any other call, and no exception leaves the handler
C29_UnidentifiedWarns ==
    [][(/\ heard' # heard
        /\ ~heard'.edited
        /\ heard'.message.author = EPIC_RPG_ID
        /\ heard'.message.kind \in IdentifyingKinds
        /\ Unidentified(heard'.message)) =>
          /\ Len(AllCalls(heard'.calls)) = 2
          /\ AllCalls(heard'.calls)[1] = AddReaction("WARNING")
          /\ AllCalls(heard'.calls)[2].op = "log_error"
          /\ Len(errorRows') = Len(errorRows) + 1
          /\ UNCHANGED <<store, scheduled_for_tasks, users>>]_vars

\* the row of the store with the key of a row
SameKey(rows, r) == {o \in rows : TaskName(o) = TaskName(r)}

\* C30: a "normal events" embed creates no reminder, deletes none and changes no stored
\* message; a row changes only if it is a reminder of the player for one of the lines of
\* the field whose recomputed time left is positive, and its new end_time is the time of
\* the handler plus the timestring, one minute more for the pet tournament, less the
\* time since the game bot answered
C30_EventsFrame ==
    [][(heard' # heard /\ heard'.message.kind = "events_normal") =>
          LET message == heard'.message
          IN  /\ \A r \in store : SameKey(store', r) # {}
              /\ \A n \in store' :
                    /\ SameKey(store, n) # {}
                    /\ \A o \in SameKey(store, n) :
                          /\ n.message = o.message
                          /\ \/ n = o
                             \/ /\ o.rtype = "user"
                                /\ o.target = message.history_user
                                /\ o.activity \in DOMAIN message.cooldowns
                                /\ LET time_left ==
                                           message.cooldowns[o.activity]
                                               + (IF o.activity = "pet-tournament" THEN 1 ELSE 0)
                                               - message.elapsed
                                   IN  time_left > 0 /\ n.end_time = now + time_left
              /\ UNCHANGED users]_vars

\* the player has a lottery and a pet-tournament reminder and no big-arena reminder; the
\* field has the lines big arena 2, lottery 1 and pet tournament 2 and is read two minutes
\* late: no big-arena reminder was created, the lottery reminder (time left -1) is as it
\* was, and the pet-tournament reminder (time left 2 + 1 - 2 = 1) has moved to the minute
\* 1 under its old message
C30_Witness ==
    /\ heard.message.kind = "events_normal"
    /\ heard.message.author = EPIC_RPG_ID
    /\ heard.message.elapsed = 2
    /\ DOMAIN heard.message.cooldowns = {"big-arena", "lottery", "pet-tournament"}
    /\ heard.message.cooldowns["lottery"] = 1
    /\ heard.message.cooldowns["pet-tournament"] = 2
    /\ get_user_reminder(store, "u1", "big-arena") = {}
    /\ get_user_reminder(store, "u1", "lottery")
          = {Reminder("user", "u1", "lottery", "ch1", OldTimeLeft, <<"old message", "lottery">>)}
    /\ get_user_reminder(store, "u1", "pet-tournament")
          = {Reminder("user", "u1", "pet-tournament", "ch1", 1,
                      <<"old message", "pet-tournament">>)}

\* the calendar day after a datetime, at 00:02:00
TwoPastMidnightTomorrow(dt, month_days) ==
    IF dt.day = month_days THEN Datetime(dt.month + 1, 1, 0, 2, 0)
    ELSE Datetime(dt.month, dt.day + 1, 0, 2, 0)

\* C31: whenever the daily celebratory-quest command of a registered, enabled player is
\* observed, the player has a cel-daily reminder due at exactly 00:02:00 of the following
\* calendar day, on the last day of a month and at a non-zero second too.
C31_DueTwoPastMidnight ==
    calendar.outcome \in {"reaction", "ValueError"} =>
        \E r \in RowsOf(store, "user", calendar.user, "cel-daily") :
            r.end_time = Seconds(TwoPastMidnightTomorrow(calendar.utcnow, calendar.month_days),
                                 calendar.month_days)

\* the command seen at a zero second before the last day of the month is answered as claimed
C31_ZeroSecondMidMonth ==
    (/\ calendar.outcome # "pending"
     /\ calendar.outcome # "ignored"
     /\ calendar.utcnow.second = 0
     /\ calendar.utcnow.day < calendar.month_days) =>
        /\ calendar.outcome = "reaction"
        /\ \E r \in RowsOf(store, "user", calendar.user, "cel-daily") :
              r.end_time = Seconds(TwoPastMidnightTomorrow(calendar.utcnow, calendar.month_days),
                                   calendar.month_days)

\* every user with a partner carries the partner's current donor tier
TierSynced(table) ==
    \A a \in Users :
        table[a].partner_id # NoPartner =>
            table[a].partner_donor_tier = table[table[a].partner_id].user_donor_tier

C33_ThresholdInRange ==
    /\ [](\A c \in DOMAIN clans : clans[c].stealth_threshold \in 1 .. 95)
    /\ [][\A v \in ViewIds, text \in ThresholdTexts :
              (clanReply'.op = "modal" /\ SetStealthThresholdModal(v, text)) =>
                  LET submitted == int(text)
                      c == clanViews[v].clan_settings.clan_name
                  IN  IF submitted.error = "none" /\ submitted.value >= 1
                         /\ submitted.value <= 95
                      THEN clans'[c].stealth_threshold = submitted.value
                      ELSE /\ clans' = clans
                           /\ store' = store
                           /\ clanReply'.out \in {"That is not a valid number.",
                                                  "between 1 and 95"}]_vars

\* the leader submitted 95 and the clan's threshold is 95
C33_Witness ==
    /\ clanReply.text = <<"9", "5">>
    /\ clanReply.out = "updated"
    /\ clans["c1"].stealth_threshold = 95

\* C39: in every state reached through the clan settings select from a state where it
\* holds, a clan with alert_enabled = true has a channel_id set.
C39_EnabledHasChannel ==
    \A c \in DOMAIN clans : clans[c].alert_enabled => clans[c].channel_id # NoChannel

\* C40: no field of a clan record is changed through the settings views by an interaction
\* of a user who is not the clan's registered leader.
C40_OnlyLeaderWrites ==
    [][/\ \A v \in ViewIds, u \in Users, selection \in ClanSelections :
             (ManageClanSettingsSelect(v, u, selection[1], selection[2], "ch1")
                  /\ u # clans[clanViews[v].clan_settings.clan_name].leader_id) =>
                 clans' = clans
       /\ \A v \in ViewIds, u \in Users :
             (ManageReadySettingsSelect(v, u)
                  /\ u # clans[clanViews[v].clan_settings.clan_name].leader_id) =>
                 clans' = clans]_vars

\* the wording the one rule gives a clan: the raid when stealth_current >= stealth_threshold
RuleWording(clan) ==
    IF clan.stealth_current >= clan.stealth_threshold THEN "guild raid" ELSE "guild upgrade"

\* the reminder of every clan is worded by the rule
WordedByRule(rows, table) ==
    \A c \in DOMAIN table :
        \A r \in get_clan_reminder(rows, c) : r.message = RuleWording(table[c])

\* C38: after the stealth-threshold modal has changed the threshold, after a timer has
\* created the quest follow-up reminder and after the weekly reset has created its
\* reminder, the clan reminder names the raid exactly when stealth_current >=
\* stealth_threshold and the upgrade otherwise.
C38_OneWordingRule ==
    [][(\/ (clanReply'.op = "modal" /\ clanReply'.out = "updated" /\ clanWrites' # clanWrites)
        \/ \E m \in sent' \ sent : m.kind = "raid_quest"
        \/ ResetClans) =>
           WordedByRule(store', clans')]_vars

\* C34: the text of a delivered user reminder follows the player's DND preference as it
\* is when the reminder is delivered at its due instant: the name-only form when DND is
\* on, the mention when it is off, also when the player changed it while the timer was
\* pending.
C34_DndAtDueInstant ==
    [][\A m \in sent' \ sent :
           m.kind = "user_reminder" => m.text = NameForm(get_user(users, m.target))]_vars

C36_NoReminderWhenOff ==
    \A u \in Users :
        (users[u].exists /\ ~users[u].bot_enabled /\ offView[u] = "none") =>
            \A r \in store : ~(r.rtype = "user" /\ r.target = u)

\* the reminders of the players that fall due while the clock runs
DueRows ==
    {Reminder("user", i[1], i[2], i[3], end_time, i[5]) :
        i \in ListenerInputs, end_time \in 1..MaxTime}

\* a timer has posted the text of the reminder
Delivered(r) == \E m \in sent : m.kind = "user_reminder" /\ r \in m.reminders

\* the row has left the store before the clock has passed its due instant: deleted or
\* replaced (the timer of a row wakes at the end of the minute that is its due instant)
GoneBeforeDue(r) == r \notin store /\ now <= r.end_time

\* C37: every reminder that is inserted and is neither deleted nor replaced by a newer
\* reminder for the same key before its due instant is eventually delivered, also a
\* reminder batched into a timer registered under another reminder's task name when
\* that other reminder is replaced before the due instant.
C37_EventuallyDelivered ==
    \A r \in DueRows : (r \in store) ~> (Delivered(r) \/ GoneBeforeDue(r))

====
